---- MODULE Spec2Model ----
(***************************************************************************)
(* A model of pyqasm's QasmModule (src/src/pyqasm/modules/base.py): the    *)
(* module's derived state (counts, register maps, depth ledger, statement  *)
(* lists, validated flag) under validate, unroll, the count getters and    *)
(* the structural transforms.                                              *)
(*                                                                         *)
(* Two module objects are modelled: object 1 is the module built by the    *)
(* loader, object 2 is the module most recently returned by a transform    *)
(* called with in_place=False on object 1.                                 *)
(*                                                                         *)
(* Statement nodes carry a field "own": the module object whose object     *)
(* graph the node was allocated in.  deepcopy allocates every node anew,   *)
(* the visitor allocates the nodes it emits, a list comprehension          *)
(* allocates a new list holding the SAME nodes.                            *)
(***************************************************************************)
EXTENDS Integers, Sequences, FiniteSets, TLC

\* ------------------------------------------------------------------ bounds
\* number of operations applied to the two module objects in one behaviour
MaxSteps == 3
\* populate_idle_qubits is not applied once the original statement list is
\* longer than this (each call can append identity gates for ever)
MaxStmts == 8

\* ------------------------------------------------------ program constants
Uninit == 0 - 1          \* the -1 of __init__, also the post-failure value
DefaultMaxLoopIters == 1000000000
None == 0 - 7            \* models Python's None for Optional[int] fields

\* ------------------------------------------------------------- statements
Q(r, i) == [reg |-> r, idx |-> i]

Stmt(k, r, n, nm, qs, cb, cnd, it, bd) ==
    [kind |-> k, reg |-> r, size |-> n, name |-> nm, qubits |-> qs,
     clbit |-> cb, cond |-> cnd, iters |-> it, body |-> bd, own |-> 1]

NoBit == Q("", 0)
Include == Stmt("include", "", 0, "", <<>>, NoBit, "", 0, <<>>)
QubitDeclaration(r, n) == Stmt("qdecl", r, n, "", <<>>, NoBit, "", 0, <<>>)
ClassicalDeclaration(r, n) == Stmt("cdecl", r, n, "", <<>>, NoBit, "", 0, <<>>)
QuantumGate(nm, qs) == Stmt("gate", "", 0, nm, qs, NoBit, "", 0, <<>>)
QuantumMeasurementStatement(q, c) ==
    Stmt("measure", "", 0, "", <<q>>, c, "", 0, <<>>)
QuantumBarrier(qs) == Stmt("barrier", "", 0, "", qs, NoBit, "", 0, <<>>)
\* cond is "true", "false" (decided by the classical bindings) or
\* "measured" (depends on a measurement outcome)
BranchingStatement(cnd, bd) == Stmt("branch", "", 0, "", <<>>, NoBit, cnd, 0, bd)
ForInLoop(it, bd) == Stmt("loop", "", 0, "", <<>>, NoBit, "", it, bd)
\* a call of a subroutine, the definition it resolves to given by its body;
\* in the body Q("formal", k) is the k-th qubit parameter
SubroutineCall(nm, qs, bd) == Stmt("call", "", 0, nm, qs, NoBit, "", 0, bd)
\* a call of a gate defined in the program, its definition given by its body
CustomGate(nm, qs, bd) == Stmt("custom", "", 0, nm, qs, NoBit, "", 0, bd)
\* a construct the visitor does not implement
Unsupported == Stmt("unsupported", "", 0, "", <<>>, NoBit, "", 0, <<>>)

\* the programs handed to the loader
Programs ==
    { << Include, QubitDeclaration("q", 4), ClassicalDeclaration("c", 1),
         QuantumGate("h", <<Q("q", 0)>>),
         QuantumGate("cx", <<Q("q", 1), Q("q", 2)>>),
         QuantumMeasurementStatement(Q("q", 2), Q("c", 0)) >>,
      << QubitDeclaration("q", 3), QubitDeclaration("r", 1),
         QuantumGate("cx", <<Q("q", 0), Q("q", 2)>>),
         QuantumBarrier(<<Q("q", 2)>>) >>,
      << QubitDeclaration("q", 3), ClassicalDeclaration("c", 1),
         QuantumGate("h", <<Q("q", 2)>>),
         QuantumMeasurementStatement(Q("q", 2), Q("c", 0)),
         BranchingStatement("measured", <<QuantumGate("x", <<Q("q", 2)>>)>>) >>,
      << QubitDeclaration("q", 2), ClassicalDeclaration("c", 1),
         ForInLoop(2, <<QuantumGate("h", <<Q("q", 0)>>)>>),
         BranchingStatement("true", <<QuantumGate("x", <<Q("q", 1)>>)>>) >>,
      << QubitDeclaration("q", 2), ClassicalDeclaration("c", 1),
         QuantumGate("h", <<Q("q", 0)>>), Unsupported >>,
      << QubitDeclaration("q", 2), ClassicalDeclaration("c", 1),
         QuantumGate("h", <<Q("q", 2)>>) >> }

\* values of unroll's max_loop_iters keyword
LoopCeilings == {DefaultMaxLoopIters, 1}

\* ---------------------------------------------------------------- helpers
Max(a, b) == IF a >= b THEN a ELSE b

RECURSIVE SumOver(_, _)
SumOver(f, D) ==
    IF D = {} THEN 0
    ELSE LET x == CHOOSE y \in D : TRUE IN f[x] + SumOver(f, D \ {x})

\* dict.values() summed
SumValues(f) == SumOver(f, DOMAIN f)

EmptyMap == [x \in {} |-> 0]

\* dict[key] = value
MapSet(f, k, v) == [x \in (DOMAIN f) \cup {k} |-> IF x = k THEN v ELSE f[x]]
\* del dict[key]
MapDel(f, k) == [x \in (DOMAIN f) \ {k} |-> f[x]]

RECURSIVE Retag(_, _)
\* the nodes of a statement list allocated anew in object m's graph
Retag(stmts, m) ==
    [i \in 1..Len(stmts) |->
        [stmts[i] EXCEPT !.own = m, !.body = Retag(stmts[i].body, m)]]

\* ---------------------------------------------------------- depth ledger
\* A ledger (dict[(reg, idx)] -> depth node) is a sequence of nodes in
\* insertion order; the key of a node is (reg, idx).
DepthNode(r, i) == [reg |-> r, idx |-> i, depth |-> 0,
                    num_measurements |-> 0, num_barriers |-> 0, num_gates |-> 0]

Keys(d) == {Q(d[i].reg, d[i].idx) : i \in 1..Len(d)}
HasKey(d, r, i) == Q(r, i) \in Keys(d)
Pos(d, r, i) == CHOOSE p \in 1..Len(d) : d[p].reg = r /\ d[p].idx = i
Get(d, r, i) == d[Pos(d, r, i)]
\* d[(r, i)] = node : an existing key keeps its position
DictSet(d, node) ==
    IF HasKey(d, node.reg, node.idx)
    THEN [d EXCEPT ![Pos(d, node.reg, node.idx)] = node]
    ELSE Append(d, node)
\* del d[(r, i)]
DictDel(d, r, i) == SelectSeq(d, LAMBDA e : ~(e.reg = r /\ e.idx = i))

is_idle(node) == node.num_measurements + node.num_barriers + node.num_gates = 0

\* ------------------------------------------------- the semantic visitor
\* The state of one pass of QasmVisitor over a statement list:
\*   lq, lc      registers declared so far in this pass (name -> size)
\*   regs, cregs the module's _qubit_registers / _classical_registers
\*   nq, nc      the module's _num_qubits / _num_clbits
\*   qd, cd      the module's _qubit_depths / _clbit_depths
\*   out         the flattened statements emitted so far
\*   err         "ok" or the exception that ended the pass
validate_register_index(index, size) == 0 <= index /\ index < size

QubitsValid(S, qs) ==
    \A i \in 1..Len(qs) :
        /\ qs[i].reg \in DOMAIN S.lq
        /\ validate_register_index(qs[i].idx, S.lq[qs[i].reg])

ClbitValid(S, c) ==
    /\ c.reg \in DOMAIN S.lc
    /\ validate_register_index(c.idx, S.lc[c.reg])

RECURSIVE SeedDepths(_, _, _, _)
\* one zero-depth node per index of a newly declared register
SeedDepths(d, r, i, n) ==
    IF i >= n THEN d ELSE SeedDepths(DictSet(d, DepthNode(r, i)), r, i + 1, n)

RECURSIVE MaxDepth(_, _)
MaxDepth(d, qs) ==
    IF qs = <<>> THEN 0
    ELSE Max(Get(d, Head(qs).reg, Head(qs).idx).depth, MaxDepth(d, Tail(qs)))

\* every bit of qs is brought to depth dep and its counter fld is incremented
TouchBits(d, qs, dep, fld) ==
    [p \in 1..Len(d) |->
        IF \E i \in 1..Len(qs) : qs[i].reg = d[p].reg /\ qs[i].idx = d[p].idx
        THEN [d[p] EXCEPT
                !.depth = dep,
                !.num_gates = IF fld = "gate" THEN @ + 1 ELSE @,
                !.num_barriers = IF fld = "barrier" THEN @ + 1 ELSE @,
                !.num_measurements = IF fld = "measure" THEN @ + 1 ELSE @]
        ELSE d[p]]

Emit(S, s, m) == [S EXCEPT !.out = Append(@, [s EXCEPT !.own = m])]

\* the formal qubits of a body bound to the first register index, whatever
\* the actual argument is
RECURSIVE BindQubits_FirstIndex(_, _)
BindQubits_FirstIndex(body, actuals) ==
    [i \in 1..Len(body) |->
        [body[i] EXCEPT
            !.qubits = [j \in 1..Len(body[i].qubits) |->
                          IF body[i].qubits[j].reg = "formal"
                          THEN Q(actuals[body[i].qubits[j].idx].reg, 0)
                          ELSE body[i].qubits[j]],
            !.body = BindQubits_FirstIndex(body[i].body, actuals)]]

\* the body of a called definition with every formal qubit resolved to the
\* (register, index) of the actual argument in its position
RECURSIVE BindQubits(_, _)
BindQubits(body, actuals) ==
    [i \in 1..Len(body) |->
        [body[i] EXCEPT
            !.qubits = [j \in 1..Len(body[i].qubits) |->
                          IF body[i].qubits[j].reg = "formal"
                          THEN actuals[body[i].qubits[j].idx]
                          ELSE body[i].qubits[j]],
            !.body = BindQubits(body[i].body, actuals)]]

RECURSIVE VisitBlock(_, _, _, _)
RECURSIVE VisitTimes(_, _, _, _, _)
RECURSIVE VisitStmt(_, _, _, _)

VisitStmt(S, s, m, ceiling) ==
    IF S.err # "ok" THEN S
    ELSE IF s.kind = "include" THEN Emit(S, s, m)
    ELSE IF s.kind = "qdecl" THEN
        \* _add_qubit_register, then the ledger entries at zero depth
        Emit([S EXCEPT !.lq = MapSet(@, s.reg, s.size),
                       !.regs = MapSet(@, s.reg, s.size),
                       !.nq = @ + s.size,
                       !.qd = SeedDepths(@, s.reg, 0, s.size)], s, m)
    ELSE IF s.kind = "cdecl" THEN
        Emit([S EXCEPT !.lc = MapSet(@, s.reg, s.size),
                       !.cregs = MapSet(@, s.reg, s.size),
                       !.nc = @ + s.size,
                       !.cd = SeedDepths(@, s.reg, 0, s.size)], s, m)
    ELSE IF s.kind \in {"gate", "barrier"} THEN
        IF ~QubitsValid(S, s.qubits) THEN [S EXCEPT !.err = "ValidationError"]
        ELSE Emit([S EXCEPT !.qd = TouchBits(@, s.qubits,
                                    MaxDepth(S.qd, s.qubits) + 1, s.kind)], s, m)
    ELSE IF s.kind = "measure" THEN
        IF ~(QubitsValid(S, s.qubits) /\ ClbitValid(S, s.clbit))
        THEN [S EXCEPT !.err = "ValidationError"]
        ELSE LET dep == Max(MaxDepth(S.qd, s.qubits),
                            MaxDepth(S.cd, <<s.clbit>>)) + 1
             IN Emit([S EXCEPT !.qd = TouchBits(@, s.qubits, dep, "measure"),
                               !.cd = TouchBits(@, <<s.clbit>>, dep, "measure")],
                     s, m)
    ELSE IF s.kind = "branch" THEN
        IF s.cond = "true" THEN VisitBlock(S, s.body, m, ceiling)
        ELSE IF s.cond = "false" THEN S
        ELSE \* the condition is not known to the pass: the branch stays in
             \* the flattened program, its body flattened
             LET B == VisitBlock([S EXCEPT !.out = <<>>], s.body, m, ceiling)
             IN IF B.err # "ok" THEN [B EXCEPT !.out = S.out]
                ELSE [B EXCEPT !.out =
                        Append(S.out, [s EXCEPT !.own = m, !.body = B.out])]
    ELSE IF s.kind = "loop" THEN
        LET n == IF s.iters > ceiling THEN ceiling ELSE s.iters
            B == VisitTimes(S, s.body, n, m, ceiling)
        IN IF B.err = "ok" /\ s.iters > ceiling
           THEN [B EXCEPT !.err = "UnrollError"]
           ELSE B
    ELSE IF s.kind = "call" THEN
        \* a subroutine call is inlined; a call nested in a called body is
        \* not supported
        IF \E i \in 1..Len(s.body) : s.body[i].kind = "call"
        THEN [S EXCEPT !.err = "UnrollError"]
        ELSE IF ~QubitsValid(S, s.qubits) THEN [S EXCEPT !.err = "ValidationError"]
        ELSE VisitBlock(S, BindQubits(s.body, s.qubits), m, ceiling)
    ELSE IF s.kind = "custom" THEN
        \* a gate of external_gates is left as it is, any other defined gate
        \* is replaced by its body
        IF ~QubitsValid(S, s.qubits) THEN [S EXCEPT !.err = "ValidationError"]
        ELSE IF \E i \in 1..Len(S.ext) : S.ext[i] = s.name
        THEN Emit([S EXCEPT !.qd = TouchBits(@, s.qubits,
                                    MaxDepth(S.qd, s.qubits) + 1, "gate")],
                  [s EXCEPT !.kind = "gate"], m)
        ELSE VisitBlock(S, BindQubits(s.body, s.qubits), m, ceiling)
    ELSE [S EXCEPT !.err = "NotImplementedError"]

VisitBlock(S, stmts, m, ceiling) ==
    IF stmts = <<>> THEN S
    ELSE VisitBlock(VisitStmt(S, Head(stmts), m, ceiling), Tail(stmts), m, ceiling)

VisitTimes(S, body, n, m, ceiling) ==
    IF n = 0 THEN S
    ELSE VisitTimes(VisitBlock(S, body, m, ceiling), body, n - 1, m, ceiling)

\* self.accept(visitor) with the module's counts already set to 0: the pass
\* over self._statements, writing into the module's maps and ledgers
accept(M, m, ceiling) ==
    VisitBlock([lq |-> EmptyMap, lc |-> EmptyMap,
                regs |-> M.qubit_registers, cregs |-> M.classical_registers,
                nq |-> 0, nc |-> 0,
                qd |-> M.qubit_depths, cd |-> M.clbit_depths,
                out |-> <<>>, err |-> "ok", ext |-> M.external_gates],
               M.statements, m, ceiling)

\* ------------------------------------------------------- the module object
\* alias says which list object _statements is: "orig" the list of
\* original_program.statements, "unr" the list of _unrolled_ast.statements,
\* "own" a list of its own.
QasmModule(prog) ==
    [exists |-> TRUE,
     num_qubits |-> Uninit, num_clbits |-> Uninit,
     qubit_depths |-> <<>>, clbit_depths |-> <<>>,
     qubit_registers |-> EmptyMap, classical_registers |-> EmptyMap,
     has_measurements |-> "None", has_barriers |-> "None",
     validated_program |-> FALSE,
     original |-> prog, statements |-> prog, alias |-> "orig",
     unrolled |-> <<>>,
     external_gates |-> <<>>, device_qubits |-> None,
     \* history, not a field of the class: the last validate or unroll run on
     \* this object (by a call or inside a transform) ended without error
     passed |-> FALSE]

NoModule == [QasmModule(<<>>) EXCEPT !.exists = FALSE]

\* self._unrolled_ast.statements = <a new list>, or a new Program
AssignUnrolled(M, L) ==
    [M EXCEPT !.unrolled = L, !.alias = IF @ = "unr" THEN "own" ELSE @]

\* the list object behind _unrolled_ast.statements changed in place
MutateUnrolled(M, L) ==
    [M EXCEPT !.unrolled = L,
              !.statements = IF M.alias = "unr" THEN L ELSE @]

\* the list object behind _statements changed in place
MutateStatements(M, L) ==
    [M EXCEPT !.statements = L,
              !.original = IF M.alias = "orig" THEN L ELSE @,
              !.unrolled = IF M.alias = "unr" THEN L ELSE @]

\* deepcopy(self): every list and node allocated anew in object m's graph,
\* the aliasing inside the object kept
copy(M, m) ==
    [M EXCEPT !.original = Retag(@, m), !.statements = Retag(@, m),
              !.unrolled = Retag(@, m)]

\* the fields a pass writes through the visitor
WithPass(M, V) ==
    [M EXCEPT !.num_qubits = V.nq, !.num_clbits = V.nc,
              !.qubit_registers = V.regs, !.classical_registers = V.cregs,
              !.qubit_depths = V.qd, !.clbit_depths = V.cd]

FailCounts(M) == [M EXCEPT !.num_qubits = Uninit, !.num_clbits = Uninit]

\* how the try block of validate() ends once the visitor V has run: the
\* device budget, the except clause, the validated flag
validate_outcome(M, V) ==
    LET P == WithPass(M, V)
        e == IF V.err # "ok" THEN V.err
             ELSE IF M.device_qubits # None /\ M.device_qubits # 0
                     /\ V.nq > M.device_qubits
                  THEN "ValidationError"
                  ELSE "ok"
    IN IF e = "ok"
       THEN [mod |-> [P EXCEPT !.validated_program = TRUE, !.passed = TRUE],
             res |-> "ok", pass |-> TRUE]
       ELSE IF e \in {"ValidationError", "NotImplementedError"}
            THEN [mod |-> [FailCounts(P) EXCEPT !.passed = FALSE],
                  res |-> e, pass |-> TRUE]
            ELSE [mod |-> [P EXCEPT !.passed = FALSE], res |-> e, pass |-> TRUE]

\* the try block of validate(): the pass with check_only, then its outcome
ValidatePass(M, m) == validate_outcome(M, accept(M, m, DefaultMaxLoopIters))

\* validate() with the reset of the counts moved above the early return
validate_ResetFirst(M, m) ==
    IF M.validated_program
    THEN [mod |-> [M EXCEPT !.num_qubits = 0, !.num_clbits = 0],
          res |-> "ok", pass |-> FALSE]
    ELSE ValidatePass(M, m)

\* validate(): the module after the call, how the call ended, and whether
\* the semantic pass ran
validate(M, m) ==
    IF M.validated_program
    THEN [mod |-> M, res |-> "ok", pass |-> FALSE]
    ELSE ValidatePass(M, m)

\* unroll() with an except clause that keeps what the visitor had emitted
unroll_outcome_KeepEmitted(M0, V) ==
    LET P == WithPass(M0, V)
    IN IF V.err = "ok"
       THEN [mod |-> [AssignUnrolled(P, V.out) EXCEPT !.passed = TRUE],
             res |-> "ok", pass |-> TRUE]
       ELSE [mod |-> [AssignUnrolled(FailCounts(P), V.out) EXCEPT !.passed = FALSE],
             res |-> V.err, pass |-> TRUE]

\* unroll(max_loop_iters=ceiling, external_gates=ext)
\* how unroll() ends once the visitor V has run on M0
unroll_outcome(M0, V) ==
    LET P == WithPass(M0, V)
    IN IF V.err = "ok"
       THEN [mod |-> [AssignUnrolled(P, V.out) EXCEPT !.passed = TRUE],
             res |-> "ok", pass |-> TRUE]
       ELSE IF V.err \in {"ValidationError", "UnrollError"}
            THEN [mod |-> [AssignUnrolled(FailCounts(P), <<>>) EXCEPT !.passed = FALSE],
                  res |-> V.err, pass |-> TRUE]
            ELSE [mod |-> [P EXCEPT !.passed = FALSE], res |-> V.err, pass |-> TRUE]

\* the visitor's qubit budget when it unrolls: once unrolling completes, a
\* device_qubits that is set and that the qubit count exceeds is a
\* ValidationError
enforce_device_qubits(M, V) ==
    IF V.err = "ok" /\ M.device_qubits # None /\ V.nq > M.device_qubits
    THEN [V EXCEPT !.err = "ValidationError"]
    ELSE V

unroll(M, m, ceiling, ext) ==
    unroll_outcome([M EXCEPT !.external_gates = ext],
                   enforce_device_qubits(
                       M, accept([M EXCEPT !.external_gates = ext], m, ceiling)))

\* return self._num_qubits, after the validate call R the getter made
return_num_qubits(R) ==
    [mod |-> R.mod, res |-> R.res, pass |-> R.pass, ret |-> R.mod.num_qubits]

\* the num_qubits property: ret is the value returned when res = "ok"
num_qubits(M, m) ==
    IF M.num_qubits = Uninit
    THEN return_num_qubits(validate([M EXCEPT !.num_qubits = 0], m))
    ELSE [mod |-> M, res |-> "ok", pass |-> FALSE, ret |-> M.num_qubits]

\* return self._num_clbits, after the validate call R the getter made
return_num_clbits(R) ==
    [mod |-> R.mod, res |-> R.res, pass |-> R.pass, ret |-> R.mod.num_clbits]

\* the num_clbits property
num_clbits(M, m) ==
    IF M.num_clbits = Uninit
    THEN return_num_clbits(validate([M EXCEPT !.num_clbits = 0], m))
    ELSE [mod |-> M, res |-> "ok", pass |-> FALSE, ret |-> M.num_clbits]

\* --------------------------------------- remove measurements/barriers/includes
\* the statement list the three removals filter
StmtList(M) == IF Len(M.unrolled) = 0 THEN M.statements ELSE M.unrolled

WithoutKind(stmts, k) == SelectSeq(stmts, LAMBDA st : st.kind # k)

\* curr_module._statements = L; curr_module._unrolled_ast.statements = L
SetBothLists(M, L) ==
    [M EXCEPT !.statements = L, !.unrolled = L, !.alias = "unr"]

\* self is the receiver, m the object the result lives in (self's own when
\* in_place, the copy's otherwise); the filtered list holds self's nodes
remove_measurements(self, m, in_place) ==
    LET L == WithoutKind(StmtList(self), "measure")
        curr == IF in_place THEN self ELSE copy(self, m)
        zq == [i \in 1..Len(curr.qubit_depths) |->
                 [curr.qubit_depths[i] EXCEPT !.num_measurements = 0]]
        zc == [i \in 1..Len(curr.clbit_depths) |->
                 [curr.clbit_depths[i] EXCEPT !.num_measurements = 0]]
    IN SetBothLists([curr EXCEPT !.qubit_depths = zq, !.clbit_depths = zc,
                                 !.has_measurements = "False"], L)

remove_barriers(self, m, in_place) ==
    LET L == WithoutKind(StmtList(self), "barrier")
        curr == IF in_place THEN self ELSE copy(self, m)
        zq == [i \in 1..Len(curr.qubit_depths) |->
                 [curr.qubit_depths[i] EXCEPT !.num_barriers = 0]]
    IN SetBothLists([curr EXCEPT !.qubit_depths = zq,
                                 !.has_barriers = "False"], L)

remove_includes(self, m, in_place) ==
    LET L == WithoutKind(StmtList(self), "include")
        curr == IF in_place THEN self ELSE copy(self, m)
    IN SetBothLists(curr, L)

\* ------------------------------------------------------------ idle qubits
\* _get_idle_qubit_indices: the registers that have an idle qubit, in the
\* order the returned dict holds them, and the idle indices of one register
IdleNodes(d) == SelectSeq(d, is_idle)

RECURSIVE RegOrder(_, _)
RegOrder(d, seen) ==
    IF d = <<>> THEN <<>>
    ELSE IF Head(d).reg \in seen THEN RegOrder(Tail(d), seen)
    ELSE <<Head(d).reg>> \o RegOrder(Tail(d), seen \cup {Head(d).reg})

IdleRegs(d) == RegOrder(IdleNodes(d), {})

IdleIndices(d, r) ==
    LET N == SelectSeq(IdleNodes(d), LAMBDA e : e.reg = r)
    IN [i \in 1..Len(N) |-> N[i].idx]

IdGate(r, i, m) == [QuantumGate("id", <<Q(r, i)>>) EXCEPT !.own = m]

RECURSIVE IdGatesOf(_, _, _)
IdGatesOf(r, idxs, m) ==
    IF idxs = <<>> THEN <<>>
    ELSE <<IdGate(r, Head(idxs), m)>> \o IdGatesOf(r, Tail(idxs), m)

RECURSIVE IdGateList(_, _, _)
IdGateList(d, regs, m) ==
    IF regs = <<>> THEN <<>>
    ELSE IdGatesOf(Head(regs), IdleIndices(d, Head(regs)), m)
            \o IdGateList(d, Tail(regs), m)

\* populate_idle_qubits with the identity gates appended to the unrolled
\* list instead of the original one
populate_IntoUnrolled(R, m) ==
    LET V == R.mod
        d == V.qubit_depths
        bumped == [i \in 1..Len(d) |->
                     IF is_idle(d[i]) THEN [d[i] EXCEPT !.depth = @ + 1]
                     ELSE d[i]]
    IN IF R.res # "ok" THEN [mod |-> V, res |-> R.res, pass |-> R.pass]
       ELSE [mod |-> MutateUnrolled([V EXCEPT !.qubit_depths = bumped],
                                    V.unrolled \o IdGateList(d, IdleRegs(d), m)),
             res |-> "ok", pass |-> R.pass]

\* populate_idle_qubits after its validate call R
populate_after_validate(R, m) ==
    LET V == R.mod
        d == V.qubit_depths
        bumped == [i \in 1..Len(d) |->
                     IF is_idle(d[i]) THEN [d[i] EXCEPT !.depth = @ + 1]
                     ELSE d[i]]
        ext == V.original \o IdGateList(d, IdleRegs(d), m)
    IN IF R.res # "ok" THEN [mod |-> V, res |-> R.res, pass |-> R.pass]
       ELSE [mod |-> [V EXCEPT !.qubit_depths = bumped,
                               !.original = ext,
                               !.statements = ext,
                               !.alias = "orig"],
             res |-> "ok", pass |-> R.pass]

\* populate_idle_qubits: mod is the module the call worked on
populate_idle_qubits(self, m, in_place) ==
    populate_after_validate(validate(IF in_place THEN self ELSE copy(self, m), m), m)

\* ---------------------------------------------------- remove_idle_qubits
\* the statement kinds of QUANTUM_STATEMENTS: the operations that carry a
\* qubit list; a branching statement is not one of them
IsQuantumStatement(st) == st.kind \in {"gate", "measure", "barrier"}

\* Qasm3Analyzer.get_op_bit_list: the qubit operands of an operation
get_op_bit_list(st) == st.qubits

EqNode(a, b) == [a EXCEPT !.own = 0] = [b EXCEPT !.own = 0]

\* position of the first qubit declaration of register r, 0 when none
DeclPos(stmts, r) ==
    LET D == {i \in 1..Len(stmts) : stmts[i].kind = "qdecl" /\ stmts[i].reg = r}
    IN IF D = {} THEN 0 ELSE CHOOSE i \in D : \A j \in D : i <= j

\* position of the first statement equal to st, 0 when none (list.remove)
EqPos(stmts, st) ==
    LET D == {i \in 1..Len(stmts) : EqNode(stmts[i], st)}
    IN IF D = {} THEN 0 ELSE CHOOSE i \in D : \A j \in D : i <= j

RemoveAt(stmts, p) ==
    [i \in 1..(Len(stmts) - 1) |-> IF i < p THEN stmts[i] ELSE stmts[i + 1]]

InSeq(x, sq) == \E i \in 1..Len(sq) : sq[i] = x

RECURSIVE UsedFrom(_, _, _)
\* [idx for idx in range(size) if idx not in idle_indices], from index i on
UsedFrom(i, size, idle) ==
    IF i >= size THEN <<>>
    ELSE IF InSeq(i, idle) THEN UsedFrom(i + 1, size, idle)
    ELSE <<i>> \o UsedFrom(i + 1, size, idle)

used_indices(size, idle) == UsedFrom(0, size, idle)

\* {used_indices[i]: i for i in range(new_size)}, for new_size <= len(used)
idx_map(used, new_size) ==
    [k \in {used[i] : i \in 1..new_size} |->
        (CHOOSE i \in 1..new_size : used[i] = k) - 1]

\* the ledger loop of _remap_qubits as the code writes it: the node is
\* stored under its new key and then the old key is deleted
MoveEntry(d, r, idx, new) ==
    DictDel(DictSet(d, [Get(d, r, idx) EXCEPT !.idx = new]), r, idx)

RECURSIVE LedgerLoop(_, _, _, _)
LedgerLoop(d, r, used, map) ==
    IF used = <<>> THEN [d |-> d, err |-> "ok"]
    ELSE IF ~HasKey(d, r, Head(used)) \/ Head(used) \notin DOMAIN map
         THEN [d |-> d, err |-> "KeyError"]
         ELSE LedgerLoop(MoveEntry(d, r, Head(used), map[Head(used)]),
                         r, Tail(used), map)

RECURSIVE RemapBits(_, _, _, _)
\* the bits of one operation from position j on
RemapBits(qs, j, r, map) ==
    IF j > Len(qs) THEN [qs |-> qs, err |-> "ok"]
    ELSE IF qs[j].reg # r THEN RemapBits(qs, j + 1, r, map)
    ELSE IF qs[j].idx \notin DOMAIN map THEN [qs |-> qs, err |-> "KeyError"]
    ELSE RemapBits([qs EXCEPT ![j].idx = map[qs[j].idx]], j + 1, r, map)

RECURSIVE RemapOps(_, _, _, _)
\* the operations of the unrolled list from position i on
RemapOps(stmts, i, r, map) ==
    IF i > Len(stmts) THEN [stmts |-> stmts, err |-> "ok"]
    ELSE IF ~IsQuantumStatement(stmts[i]) THEN RemapOps(stmts, i + 1, r, map)
    ELSE LET B == RemapBits(get_op_bit_list(stmts[i]), 1, r, map)
             S1 == [stmts EXCEPT ![i].qubits = B.qs]
         IN IF B.err # "ok" THEN [stmts |-> S1, err |-> B.err]
            ELSE RemapOps(S1, i + 1, r, map)

\* _remap_qubits(reg_name, size, idle_indices) on module qm
remap_qubits(qm, r, size, idle) ==
    LET used == used_indices(size, idle)
        new_size == size - Len(idle)
    IN IF new_size > Len(used) THEN [mod |-> qm, err |-> "IndexError"]
       ELSE
         LET map == idx_map(used, new_size)
             p == DeclPos(qm.unrolled, r)
             U1 == IF p = 0 THEN qm.unrolled
                   ELSE [qm.unrolled EXCEPT ![p].size = new_size]
             M1 == MutateUnrolled(
                     [qm EXCEPT !.qubit_registers = MapSet(@, r, new_size)], U1)
             L == LedgerLoop(M1.qubit_depths, r, used, map)
             M2 == [M1 EXCEPT !.qubit_depths = L.d]
             O == RemapOps(M2.unrolled, 1, r, map)
             M3 == MutateUnrolled(M2, O.stmts)
         IN IF L.err # "ok" THEN [mod |-> M2, err |-> L.err]
            ELSE [mod |-> M3, err |-> O.err]

RECURSIVE DelKeys(_, _, _)
DelKeys(d, r, idxs) ==
    IF idxs = <<>> THEN d ELSE DelKeys(DictDel(d, r, Head(idxs)), r, Tail(idxs))

\* the all-idle case: the declaration leaves both lists and the register
\* leaves the map
DropRegister(qm, r) ==
    LET p == DeclPos(qm.unrolled, r)
        st == qm.unrolled[p]
        M1 == MutateUnrolled(qm, RemoveAt(qm.unrolled, p))
        e == EqPos(M1.statements, st)
        M2 == IF p = 0 THEN qm
              ELSE IF e = 0 THEN M1
              ELSE MutateStatements(M1, RemoveAt(M1.statements, e))
    IN IF p # 0 /\ e = 0 THEN [mod |-> M1, err |-> "ValueError"]
       ELSE IF r \notin DOMAIN M2.qubit_registers
            THEN [mod |-> M2, err |-> "KeyError"]
            ELSE [mod |-> [M2 EXCEPT !.qubit_registers = MapDel(@, r)],
                  err |-> "ok"]

\* the end of one iteration, R being what the register's branch left:
\* self._num_qubits -= len(idle_indices), written to the receiver
IdleStepEnd(st, R, idle, in_place) ==
    IF R.err # "ok"
    THEN [self |-> st.self, qm |-> R.mod, err |-> R.err]
    ELSE IF in_place
    THEN [self |-> st.self, err |-> "ok",
          qm |-> [R.mod EXCEPT !.num_qubits = @ - Len(idle)]]
    ELSE [self |-> [st.self EXCEPT !.num_qubits = @ - Len(idle)],
          qm |-> R.mod, err |-> "ok"]

\* the body of the loop on qm1, the module with the idle keys deleted, for
\* a register of the given size
IdleStepOn(st, qm1, r, size, idle, in_place) ==
    IdleStepEnd(st,
                IF Len(idle) = size THEN DropRegister(qm1, r)
                ELSE IF Len(idle) # 0 THEN remap_qubits(qm1, r, size, idle)
                ELSE [mod |-> qm1, err |-> "ok"],
                idle, in_place)

\* one iteration of the loop over idle_qubit_indices.items(); st.self is the
\* receiver and st.qm the module worked on (the same object when in_place)
IdleStep(st, r, idle, in_place) ==
    LET qm1 == [st.qm EXCEPT !.qubit_depths = DelKeys(@, r, idle)]
        selfRegs == IF in_place THEN qm1.qubit_registers
                    ELSE st.self.qubit_registers
    IN IF r \notin DOMAIN selfRegs
       THEN [self |-> st.self, qm |-> qm1, err |-> "KeyError"]
       ELSE IdleStepOn(st, qm1, r, selfRegs[r], idle, in_place)

RECURSIVE IdleLoop(_, _, _, _)
IdleLoop(st, regs, d0, in_place) ==
    IF regs = <<>> \/ st.err # "ok" THEN st
    ELSE IdleLoop(IdleStep(st, Head(regs), IdleIndices(d0, Head(regs)), in_place),
                  Tail(regs), d0, in_place)

\* remove_idle_qubits: self is the receiver after the call, mod the module
\* the call worked on (returned when res = "ok")
\* the end of remove_idle_qubits, F being the state the loop left:
\* qasm_module._statements = qasm_module._unrolled_ast.statements
remove_idle_end(F, in_place) ==
    LET done == [F.qm EXCEPT !.statements = F.qm.unrolled, !.alias = "unr"]
    IN IF F.err # "ok"
       THEN [self |-> IF in_place THEN F.qm ELSE F.self, mod |-> F.qm,
             res |-> F.err]
       ELSE [self |-> IF in_place THEN done ELSE F.self, mod |-> done,
             res |-> "ok"]

\* remove_idle_qubits after its unroll call U
remove_idle_after_unroll(self, U, in_place) ==
    IF U.res # "ok"
    THEN [self |-> IF in_place THEN U.mod ELSE self, mod |-> U.mod,
          res |-> U.res]
    ELSE remove_idle_end(
            IdleLoop([self |-> self, qm |-> U.mod, err |-> "ok"],
                     IdleRegs(U.mod.qubit_depths), U.mod.qubit_depths, in_place),
            in_place)

remove_idle_qubits(self, m, in_place) ==
    remove_idle_after_unroll(
        self,
        unroll(IF in_place THEN self ELSE copy(self, m), m, DefaultMaxLoopIters, <<>>),
        in_place)

\* --------------------------------------------------- reverse_qubit_order
\* new_qubit_mappings[register]: {0: 0}, or the reversal when size > 1
ReverseMap(size) ==
    IF size > 1 THEN [old_id \in 0..(size - 1) |-> size - old_id - 1]
    ELSE [old_id \in {0} |-> 0]

new_qubit_mappings(regs) == [r \in DOMAIN regs |-> ReverseMap(regs[r])]

RECURSIVE MarkBits_NoOffset(_, _, _)
\* phase one with the marker -1 * new_idx, which leaves index 0 unmarked
MarkBits_NoOffset(qs, j, maps) ==
    IF j > Len(qs) THEN [qs |-> qs, err |-> "ok"]
    ELSE IF qs[j].reg \notin DOMAIN maps
            \/ qs[j].idx \notin DOMAIN maps[qs[j].reg]
         THEN [qs |-> qs, err |-> "KeyError"]
         ELSE MarkBits_NoOffset(
                [qs EXCEPT ![j].idx = (0 - 1) * maps[qs[j].reg][qs[j].idx]],
                j + 1, maps)

RECURSIVE MarkBits(_, _, _)
\* phase one on the bits of one operation: idx -> -1 * new_idx - 1
MarkBits(qs, j, maps) ==
    IF j > Len(qs) THEN [qs |-> qs, err |-> "ok"]
    ELSE IF qs[j].reg \notin DOMAIN maps
            \/ qs[j].idx \notin DOMAIN maps[qs[j].reg]
         THEN [qs |-> qs, err |-> "KeyError"]
         ELSE MarkBits([qs EXCEPT ![j].idx = (0 - 1) * maps[qs[j].reg][qs[j].idx] - 1],
                       j + 1, maps)

RECURSIVE MarkOps(_, _, _)
MarkOps(stmts, i, maps) ==
    IF i > Len(stmts) THEN [stmts |-> stmts, err |-> "ok"]
    ELSE IF ~IsQuantumStatement(stmts[i]) THEN MarkOps(stmts, i + 1, maps)
    ELSE LET B == MarkBits(get_op_bit_list(stmts[i]), 1, maps)
             S1 == [stmts EXCEPT ![i].qubits = B.qs]
         IN IF B.err # "ok" THEN [stmts |-> S1, err |-> B.err]
            ELSE MarkOps(S1, i + 1, maps)

\* phase two on one bit: a negative value v becomes (v + 1) * -1
Unmark(v) == IF v < 0 THEN (v + 1) * (0 - 1) ELSE v

UnmarkOps(stmts) ==
    [i \in 1..Len(stmts) |->
        IF IsQuantumStatement(stmts[i])
        THEN [stmts[i] EXCEPT !.qubits =
                [j \in 1..Len(stmts[i].qubits) |->
                    [stmts[i].qubits[j] EXCEPT !.idx = Unmark(@)]]]
        ELSE stmts[i]]

\* reverse_qubit_order: self is the receiver (its register map is the one
\* read), mod the module the call worked on (returned when res = "ok")
\* reverse_qubit_order after its unroll call U
reverse_after_unroll(self, U, in_place) ==
    LET regs == IF in_place THEN U.mod.qubit_registers ELSE self.qubit_registers
        P1 == MarkOps(U.mod.unrolled, 1, new_qubit_mappings(regs))
        M1 == MutateUnrolled(U.mod, P1.stmts)
        M2 == MutateUnrolled(M1, UnmarkOps(M1.unrolled))
        done == [M2 EXCEPT !.statements = M2.unrolled, !.alias = "unr"]
    IN IF U.res # "ok" THEN [mod |-> U.mod, res |-> U.res]
       ELSE IF P1.err # "ok" THEN [mod |-> M1, res |-> P1.err]
       ELSE [mod |-> done, res |-> "ok"]

reverse_qubit_order(self, m, in_place) ==
    reverse_after_unroll(
        self,
        unroll(IF in_place THEN self ELSE copy(self, m), m, DefaultMaxLoopIters, <<>>),
        in_place)

\* ------------------------------------------------------------------ state
VARIABLES
    mods,     \* the two module objects
    last,     \* the call made last: what, on which object, how it ended
    before,   \* the unrolled list on entry to a run of in-place reversals
    steps,    \* calls made so far
    call,     \* the validation rule applied last: its inputs and how it ended
    cli       \* the run of the batch validator

vars == <<mods, last, before, steps, call, cli>>

Objects == {1, 2}

\* a call: op on object m, its result in object tgt, how it ended (res),
\* whether it ran a semantic pass, and ret: the value a getter or depth()
\* returned, the max_loop_iters an unroll was given; arg: the basis set
\* name a rebase was given
CallRec(op, m, in_place, res, pass, ret) ==
    [op |-> op, m |-> m, tgt |-> IF in_place THEN m ELSE 2,
     in_place |-> in_place, res |-> res, pass |-> pass, ret |-> ret,
     arg |-> ""]

NoCall == CallRec("load", 1, TRUE, "ok", FALSE, 0)

\* the call just made, and the one made before it
Then(op, m, in_place, res, pass, ret) ==
    [cur |-> CallRec(op, m, in_place, res, pass, ret), prev |-> last.cur]

NoBefore == [cnt |-> 0, flat |-> <<>>, current |-> FALSE]

\* no validation rule applied, the batch validator not started
NoRule == [fn |-> "none"]

NoRun == [pc |-> "off"]

Init ==
    /\ \E prog \in Programs : mods = [o \in Objects |->
                                        IF o = 1 THEN QasmModule(prog) ELSE NoModule]
    /\ last = [cur |-> NoCall, prev |-> NoCall]
    /\ before = NoBefore
    /\ steps = 0
    /\ call = NoRule
    /\ cli = NoRun

\* a call is made on an existing object; in_place=False calls are made on
\* object 1 and their result becomes object 2
CanCall(m, in_place) ==
    /\ steps < MaxSteps
    /\ mods[m].exists
    /\ (~in_place => m = 1)

\* where the outcome of a transform goes
Place(m, in_place, self, mod, res) ==
    IF in_place THEN [mods EXCEPT ![m] = mod]
    ELSE IF res = "ok" THEN [mods EXCEPT ![1] = self, ![2] = mod]
    ELSE [mods EXCEPT ![1] = self]

Validate(m) ==
    /\ CanCall(m, TRUE)
    /\ \E R \in {validate(mods[m], m)} :
          /\ mods' = [mods EXCEPT ![m] = R.mod]
          /\ last' = Then("validate", m, TRUE, R.res, R.pass, 0)
    /\ before' = NoBefore
    /\ steps' = steps + 1
    /\ UNCHANGED <<call, cli>>

Unroll(m, ceiling) ==
    /\ CanCall(m, TRUE)
    /\ \E R \in {unroll(mods[m], m, ceiling, <<>>)} :
          /\ mods' = [mods EXCEPT ![m] = R.mod]
          /\ last' = Then("unroll", m, TRUE, R.res, R.pass, ceiling)
    /\ before' = NoBefore
    /\ steps' = steps + 1
    /\ UNCHANGED <<call, cli>>

ReadNumQubits(m) ==
    /\ CanCall(m, TRUE)
    /\ \E R \in {num_qubits(mods[m], m)} :
          /\ mods' = [mods EXCEPT ![m] = R.mod]
          /\ last' = Then("num_qubits", m, TRUE, R.res, R.pass, R.ret)
    /\ before' = NoBefore
    /\ steps' = steps + 1
    /\ UNCHANGED <<call, cli>>

ReadNumClbits(m) ==
    /\ CanCall(m, TRUE)
    /\ \E R \in {num_clbits(mods[m], m)} :
          /\ mods' = [mods EXCEPT ![m] = R.mod]
          /\ last' = Then("num_clbits", m, TRUE, R.res, R.pass, R.ret)
    /\ before' = NoBefore
    /\ steps' = steps + 1
    /\ UNCHANGED <<call, cli>>

RemoveMeasurements(m, in_place) ==
    /\ CanCall(m, in_place)
    /\ mods' = Place(m, in_place, mods[m],
                     remove_measurements(mods[m], IF in_place THEN m ELSE 2, in_place),
                     "ok")
    /\ last' = Then("remove_measurements", m, in_place, "ok", FALSE, 0)
    /\ before' = NoBefore
    /\ steps' = steps + 1
    /\ UNCHANGED <<call, cli>>

RemoveBarriers(m, in_place) ==
    /\ CanCall(m, in_place)
    /\ mods' = Place(m, in_place, mods[m],
                     remove_barriers(mods[m], IF in_place THEN m ELSE 2, in_place),
                     "ok")
    /\ last' = Then("remove_barriers", m, in_place, "ok", FALSE, 0)
    /\ before' = NoBefore
    /\ steps' = steps + 1
    /\ UNCHANGED <<call, cli>>

RemoveIncludes(m, in_place) ==
    /\ CanCall(m, in_place)
    /\ mods' = Place(m, in_place, mods[m],
                     remove_includes(mods[m], IF in_place THEN m ELSE 2, in_place),
                     "ok")
    /\ last' = Then("remove_includes", m, in_place, "ok", FALSE, 0)
    /\ before' = NoBefore
    /\ steps' = steps + 1
    /\ UNCHANGED <<call, cli>>

PopulateIdleQubits(m, in_place) ==
    /\ CanCall(m, in_place)
    /\ Len(mods[m].original) <= MaxStmts
    /\ \E R \in {populate_idle_qubits(mods[m], IF in_place THEN m ELSE 2, in_place)} :
          /\ mods' = Place(m, in_place, mods[m], R.mod, R.res)
          /\ last' = Then("populate_idle_qubits", m, in_place, R.res, R.pass, 0)
    /\ before' = NoBefore
    /\ steps' = steps + 1
    /\ UNCHANGED <<call, cli>>

RemoveIdleQubits(m, in_place) ==
    /\ CanCall(m, in_place)
    /\ \E R \in {remove_idle_qubits(mods[m], IF in_place THEN m ELSE 2, in_place)} :
          /\ mods' = Place(m, in_place, R.self, R.mod, R.res)
          /\ last' = Then("remove_idle_qubits", m, in_place, R.res, TRUE, 0)
    /\ before' = NoBefore
    /\ steps' = steps + 1
    /\ UNCHANGED <<call, cli>>

\* the unrolled list of M is the flattening of its statement list
IsUnrolled(M, m) ==
    /\ Len(M.unrolled) > 0
    /\ \E U \in {unroll(M, m, DefaultMaxLoopIters, <<>>)} :
          U.res = "ok" /\ U.mod.unrolled = M.unrolled

ReverseQubitOrder(m, in_place) ==
    /\ CanCall(m, in_place)
    /\ \E R \in {reverse_qubit_order(mods[m], IF in_place THEN m ELSE 2, in_place)},
          again \in {/\ last.cur.op = "reverse_qubit_order" /\ last.cur.in_place
                     /\ last.cur.m = m /\ last.cur.res = "ok" /\ before.cnt = 1} :
          /\ mods' = Place(m, in_place, mods[m], R.mod, R.res)
          /\ last' = Then("reverse_qubit_order", m, in_place, R.res, TRUE, 0)
          /\ before' = IF ~in_place \/ R.res # "ok" THEN NoBefore
                       ELSE IF again THEN [before EXCEPT !.cnt = 2]
                       ELSE [cnt |-> 1, flat |-> mods[m].unrolled,
                             current |-> IsUnrolled(mods[m], m)]
    /\ steps' = steps + 1
    /\ UNCHANGED <<call, cli>>

Next ==
    \/ \E m \in Objects : Validate(m)
    \/ \E m \in Objects, c \in LoopCeilings : Unroll(m, c)
    \/ \E m \in Objects : ReadNumQubits(m)
    \/ \E m \in Objects : ReadNumClbits(m)
    \/ \E m \in Objects, ip \in BOOLEAN : RemoveMeasurements(m, ip)
    \/ \E m \in Objects, ip \in BOOLEAN : RemoveBarriers(m, ip)
    \/ \E m \in Objects, ip \in BOOLEAN : RemoveIncludes(m, ip)
    \/ \E m \in Objects, ip \in BOOLEAN : PopulateIdleQubits(m, ip)
    \/ \E m \in Objects, ip \in BOOLEAN : RemoveIdleQubits(m, ip)
    \/ \E m \in Objects, ip \in BOOLEAN : ReverseQubitOrder(m, ip)

Spec == Init /\ [][Next]_vars

\* ================================================================ claims
Transforms ==
    {"remove_idle_qubits", "reverse_qubit_order", "populate_idle_qubits",
     "remove_measurements", "remove_barriers", "remove_includes"}

\* the (register, index) pairs the register map declares
DeclaredQubits(M) ==
    UNION {{Q(r, i) : i \in 0..(M.qubit_registers[r] - 1)} :
              r \in DOMAIN M.qubit_registers}

\* C1: on every object whose last validate or unroll succeeded, whatever
\* transforms followed, the stored num_qubits is the sum of the values of
\* qubit_registers.
C1_CountIsRegisterSum ==
    \A o \in Objects :
        (mods[o].exists /\ mods[o].passed)
            => mods[o].num_qubits = SumValues(mods[o].qubit_registers)

\* C2: after a successful remove_idle_qubits the keys of qubit_depths are
\* exactly the (register, index) pairs the register map declares.
C2_LedgerMatchesRegisters ==
    (last.cur.op = "remove_idle_qubits" /\ last.cur.res = "ok")
        => Keys(mods[last.cur.tgt].qubit_depths) = DeclaredQubits(mods[last.cur.tgt])

\* ---- C3
\* the idle indices of register r in ledger d
IdleSet(d, r) == {d[i].idx : i \in {p \in 1..Len(d) : d[p].reg = r /\ is_idle(d[p])}}

\* the registers of W whose idle set is a strict non-empty subset
PartlyIdle(W) ==
    {r \in DOMAIN W.qubit_registers :
        /\ IdleSet(W.qubit_depths, r) # {}
        /\ IdleSet(W.qubit_depths, r) # 0..(W.qubit_registers[r] - 1)}

\* the rank of index i among the used indices of register r
Rank(W, r, i) == Cardinality({j \in 0..(i - 1) : j \notin IdleSet(W.qubit_depths, r)})

RankBits(W, qs) ==
    [j \in 1..Len(qs) |->
        IF qs[j].reg \in PartlyIdle(W)
        THEN [qs[j] EXCEPT !.idx = Rank(W, qs[j].reg, qs[j].idx)]
        ELSE qs[j]]

RECURSIVE RankRefs(_, _)
\* every qubit reference of every operation, nested ones included, at its rank
RankRefs(W, stmts) ==
    [i \in 1..Len(stmts) |->
        [stmts[i] EXCEPT !.qubits = RankBits(W, @), !.body = RankRefs(W, @)]]

Operations(stmts) == SelectSeq(stmts, LAMBDA st : st.kind # "qdecl")

\* the module as the unroll at the head of a transform leaves it
Entered(M, tgt, in_place) ==
    unroll(IF in_place THEN M ELSE copy(M, tgt), tgt, DefaultMaxLoopIters, <<>>).mod

\* C3: a successful remove_idle_qubits gives every register whose idle set
\* is a strict non-empty subset the size s - |I| and rewrites every bit
\* reference to it, in every operation of the flattened program and in the
\* operations nested in branch bodies, to the rank of its old index among
\* the used indices; other references are unchanged.
C3_ReferencesRemapped ==
    [][(steps' = steps + 1 /\ last'.cur.op = "remove_idle_qubits"
            /\ last'.cur.res = "ok")
        => \A W \in {Entered(mods[last'.cur.m], last'.cur.tgt, last'.cur.in_place)},
              A \in {mods'[last'.cur.tgt]} :
              /\ \A r \in PartlyIdle(W) :
                    /\ r \in DOMAIN A.qubit_registers
                    /\ A.qubit_registers[r] =
                         W.qubit_registers[r] - Cardinality(IdleSet(W.qubit_depths, r))
              /\ Operations(A.unrolled) = RankRefs(W, Operations(W.unrolled))]_vars

\* ---- C4
\* C4: a transform called with in_place=False leaves every field of the
\* receiver as it was.
C4_ReceiverUnchanged ==
    [][(steps' = steps + 1 /\ ~last'.cur.in_place) => mods'[1] = mods[1]]_vars

\* ---- C5
RECURSIVE Owners(_)
\* the objects whose nodes a statement list holds, nested nodes included
Owners(stmts) ==
    IF stmts = <<>> THEN {}
    ELSE {Head(stmts).own} \cup Owners(Head(stmts).body) \cup Owners(Tail(stmts))

ListOwners(M) == Owners(M.statements) \cup Owners(M.unrolled) \cup Owners(M.original)

\* C5: the module returned by remove_measurements, remove_barriers or
\* remove_includes with in_place=False holds no statement node of the
\* receiver.
C5_NoSharedNode ==
    (last.cur.op \in {"remove_measurements", "remove_barriers", "remove_includes"}
        /\ ~last.cur.in_place)
        => (1 \notin ListOwners(mods[2]) /\ 2 \notin ListOwners(mods[1]))

\* ---- C6
RECURSIVE Shape(_)
\* a statement list with every operand index erased
Shape(stmts) ==
    [i \in 1..Len(stmts) |->
        [stmts[i] EXCEPT
            !.qubits = [j \in 1..Len(stmts[i].qubits) |->
                            [stmts[i].qubits[j] EXCEPT !.idx = 0]],
            !.body = Shape(@)]]

\* C6: on a module whose unrolled list is the flattening of its statements,
\* one in-place reverse_qubit_order changes nothing of the unrolled list but
\* operand indices, and a second one right after it restores every operand
\* index.
C6_ReverseTwiceIsIdentity ==
    before.current =>
        /\ before.cnt >= 1 => Shape(mods[last.cur.m].unrolled) = Shape(before.flat)
        /\ before.cnt = 2 => mods[last.cur.m].unrolled = before.flat

\* two reversals were applied, to a list with an operand in a register of
\* more than one qubit
C6_Witness ==
    /\ before.cnt = 2 /\ before.current
    /\ \E i \in 1..Len(before.flat) :
          /\ before.flat[i].kind = "gate"
          /\ mods[last.cur.m].qubit_registers[before.flat[i].qubits[1].reg] > 1
          /\ before.flat[i].qubits[1].idx > 0

\* ---- C7
\* C7: when validate or unroll ends with an error, num_qubits and num_clbits
\* both hold the failed value.
C7_FailedCountsReset ==
    (last.cur.op \in {"validate", "unroll"} /\ last.cur.res # "ok")
        => /\ mods[last.cur.m].num_qubits = Uninit
           /\ mods[last.cur.m].num_clbits = Uninit

\* ---- C8
\* C8: a read of num_qubits or num_clbits that follows a failed validate or
\* unroll of the same object runs a semantic pass before it returns.
C8_ReadAfterFailureRevalidates ==
    (/\ last.cur.op \in {"num_qubits", "num_clbits"}
     /\ last.prev.op \in {"validate", "unroll"}
     /\ last.prev.m = last.cur.m
     /\ last.prev.res # "ok")
        => last.cur.pass

\* ---- C9
\* C9: a validate that directly follows a successful validate of the same
\* object ends without error and changes no field of any module.
C9_ValidateIdempotent ==
    [][(/\ steps' = steps + 1
        /\ last.cur.op = "validate" /\ last.cur.res = "ok"
        /\ last'.cur.op = "validate" /\ last'.cur.m = last.cur.m)
        => (last'.cur.res = "ok" /\ mods' = mods)]_vars

\* a validate that ran the pass was followed by a second validate
C9_Witness ==
    /\ last.cur.op = "validate" /\ last.prev.op = "validate"
    /\ last.cur.m = last.prev.m
    /\ last.prev.res = "ok" /\ last.prev.pass
    /\ last.cur.res = "ok"
    /\ mods[last.cur.m].num_qubits > 0

\* ---- C10
\* C10: the validate that follows a successful in-place transform of the same
\* object runs the semantic pass.
C10_TransformInvalidates ==
    (/\ last.cur.op = "validate"
     /\ last.prev.op \in Transforms /\ last.prev.in_place
     /\ last.prev.res = "ok" /\ last.prev.m = last.cur.m)
        => last.cur.pass

\* ============================================================ device budget
\* the budgets a module is loaded with: none, or an integer
InitDevice ==
    /\ \E prog \in Programs, d \in {None, 0, 1, 2, 4} :
          mods = [o \in Objects |->
                    IF o = 1 THEN [QasmModule(prog) EXCEPT !.device_qubits = d]
                    ELSE NoModule]
    /\ last = [cur |-> NoCall, prev |-> NoCall]
    /\ before = NoBefore
    /\ steps = 0
    /\ call = NoRule
    /\ cli = NoRun

NextDevice ==
    \/ \E m \in Objects : Validate(m)
    \/ \E m \in Objects, c \in LoopCeilings : Unroll(m, c)
    \/ \E m \in Objects : ReadNumQubits(m)
    \/ \E m \in Objects : ReadNumClbits(m)

SpecDevice == InitDevice /\ [][NextDevice]_vars

\* C11: when device_qubits is set to an integer d, 0 included, and validate
\* or unroll has just returned successfully, num_qubits <= d; a program
\* that declares more than d qubits makes the call fail instead.
C11_BudgetRespected ==
    (/\ last.cur.op \in {"validate", "unroll"}
     /\ last.cur.res = "ok"
     /\ mods[last.cur.m].device_qubits # None)
        => mods[last.cur.m].num_qubits <= mods[last.cur.m].device_qubits

\* ==================================================================== depth
\* the object the copy made inside depth() lives in
Temp == 3

RECURSIVE max_bit_depth(_)
\* max(bit.depth for bit in ledger.values()), 0 for an empty ledger
max_bit_depth(d) ==
    IF d = <<>> THEN 0 ELSE Max(Head(d).depth, max_bit_depth(Tail(d)))

\* depth() with the ledgers cleared and the unroll run on the receiver
\* itself: what the unroll left is the receiver's state
depth_OnSelf(self, U) ==
    IF U.res # "ok" THEN [self |-> U.mod, res |-> U.res, ret |-> 0]
    ELSE [self |-> U.mod, res |-> "ok",
          ret |-> Max(max_bit_depth(U.mod.qubit_depths),
                      max_bit_depth(U.mod.clbit_depths))]

\* depth() after the unroll call U of the copy
depth_after_unroll(self, U) ==
    IF U.res # "ok" THEN [self |-> self, res |-> U.res, ret |-> 0]
    ELSE [self |-> self, res |-> "ok",
          ret |-> Max(max_bit_depth(U.mod.qubit_depths),
                      max_bit_depth(U.mod.clbit_depths))]

\* depth(): self is the receiver after the call, ret the value returned
\* when res = "ok"
depth(self) ==
    depth_after_unroll(
        self,
        unroll([copy(self, Temp) EXCEPT !.qubit_depths = <<>>, !.clbit_depths = <<>>],
               Temp, DefaultMaxLoopIters, self.external_gates))

Depth(m) ==
    /\ CanCall(m, TRUE)
    /\ \E R \in {depth(mods[m])} :
          /\ mods' = [mods EXCEPT ![m] = R.self]
          /\ last' = Then("depth", m, TRUE, R.res, TRUE, R.ret)
    /\ before' = NoBefore
    /\ steps' = steps + 1
    /\ UNCHANGED <<call, cli>>

NextDepth ==
    \/ \E m \in Objects, c \in LoopCeilings : Unroll(m, c)
    \/ \E m \in Objects, ip \in BOOLEAN : RemoveMeasurements(m, ip)
    \/ \E m \in Objects, ip \in BOOLEAN : PopulateIdleQubits(m, ip)
    \/ \E m \in Objects, ip \in BOOLEAN : RemoveIdleQubits(m, ip)
    \/ \E m \in Objects : Depth(m)

SpecDepth == Init /\ [][NextDepth]_vars

\* the copy depth() works on, after its re-unroll with the ledgers reset
Reunrolled(M) ==
    unroll([copy(M, Temp) EXCEPT !.qubit_depths = <<>>, !.clbit_depths = <<>>],
           Temp, DefaultMaxLoopIters, M.external_gates)

\* the depths the two ledgers of M hold
BitDepths(M) ==
    {M.qubit_depths[i].depth : i \in 1..Len(M.qubit_depths)}
        \cup {M.clbit_depths[i].depth : i \in 1..Len(M.clbit_depths)}

\* C12: depth() leaves every field of every module as it was, whether the
\* re-unroll of its copy succeeds or fails; when it succeeds the value
\* returned is the greatest depth of the copy's qubit and classical-bit
\* ledger entries, and 0 when there is none.
C12_DepthIsPure ==
    [][(steps' = steps + 1 /\ last'.cur.op = "depth")
        => /\ mods' = mods
           /\ \A W \in {Reunrolled(mods[last'.cur.m])} :
                 /\ last'.cur.res = W.res
                 /\ W.res = "ok" =>
                       /\ \A x \in BitDepths(W.mod) : x <= last'.cur.ret
                       /\ last'.cur.ret \in BitDepths(W.mod) \cup {0}
                       /\ BitDepths(W.mod) = {} => last'.cur.ret = 0]_vars

\* depth() returned a depth of two or more on a module that an earlier call
\* had changed
C12_Witness ==
    /\ last.cur.op = "depth" /\ last.cur.res = "ok" /\ last.cur.ret >= 2
    /\ last.prev.op \in Transforms /\ last.prev.m = last.cur.m

\* ---- C13
\* the module populate_idle_qubits works on, after the validate it starts with
Validated(M, tgt, in_place) ==
    validate(IF in_place THEN M ELSE copy(M, tgt), tgt).mod

\* the positions of ledger d that hold an idle qubit
IdlePositions(d) == {i \in 1..Len(d) : is_idle(d[i])}

\* C13: a successful populate_idle_qubits raises the ledger depth of every
\* qubit that was idle by exactly one, appends exactly one identity
\* operation per such qubit to the original statement list and nothing to
\* the unrolled list, and leaves the ledger entry of every other qubit and
\* of every classical bit as it was.
C13_IdleQubitsPadded ==
    [][(steps' = steps + 1 /\ last'.cur.op = "populate_idle_qubits"
            /\ last'.cur.res = "ok")
        => \A W \in {Validated(mods[last'.cur.m], last'.cur.tgt, last'.cur.in_place)},
              A \in {mods'[last'.cur.tgt]} :
              /\ Len(A.qubit_depths) = Len(W.qubit_depths)
              /\ \A i \in 1..Len(W.qubit_depths) :
                    IF i \in IdlePositions(W.qubit_depths)
                    THEN A.qubit_depths[i] =
                            [W.qubit_depths[i] EXCEPT !.depth = @ + 1]
                    ELSE A.qubit_depths[i] = W.qubit_depths[i]
              /\ A.clbit_depths = W.clbit_depths
              /\ A.unrolled = W.unrolled
              /\ Len(A.original) =
                    Len(W.original) + Cardinality(IdlePositions(W.qubit_depths))
              /\ SubSeq(A.original, 1, Len(W.original)) = W.original
              /\ \A k \in (Len(W.original) + 1)..Len(A.original) :
                    /\ A.original[k].kind = "gate" /\ A.original[k].name = "id"
                    /\ Len(A.original[k].qubits) = 1
              /\ \A i \in IdlePositions(W.qubit_depths) :
                    Cardinality({k \in (Len(W.original) + 1)..Len(A.original) :
                        A.original[k].qubits =
                            <<Q(W.qubit_depths[i].reg, W.qubit_depths[i].idx)>>}) = 1
           ]_vars

\* populate_idle_qubits padded a module that has an idle qubit, now at
\* depth one, and a qubit that is not idle
C13_Witness ==
    /\ last.cur.op = "populate_idle_qubits" /\ last.cur.res = "ok"
    /\ \E i, j \in 1..Len(mods[last.cur.tgt].qubit_depths) :
          /\ is_idle(mods[last.cur.tgt].qubit_depths[i])
          /\ mods[last.cur.tgt].qubit_depths[i].depth = 1
          /\ ~is_idle(mods[last.cur.tgt].qubit_depths[j])
    /\ mods[last.cur.tgt].original[Len(mods[last.cur.tgt].original)].name = "id"

\* =================================================================== rebase
\* the target basis sets that have decomposition rules
DECOMPOSITION_RULES == {"rotational_cnot", "clifford_t"}

\* the names a caller may pass
\* the rule keyed by (target basis, gate name): the names of the primitive
\* operations that replace the gate; a gate of the basis stays as it is
Rule(target, name) ==
    IF target = "rotational_cnot"
    THEN IF name = "h" THEN <<"ry", "rx">>
         ELSE IF name = "x" THEN <<"rx">>
         ELSE <<name>>
    ELSE IF name = "x" THEN <<"h", "s", "s", "h">>
         ELSE <<name>>

\* Decomposer.process_gate_statement: the replacement operations, new
\* nodes of object m, with the qubit operands of the original call
process_gate_statement(gate_name, statement, target, m) ==
    [k \in 1..Len(Rule(target, gate_name)) |->
        [statement EXCEPT !.name = Rule(target, gate_name)[k], !.own = m]]

RECURSIVE RebaseList(_, _, _)
\* the loop of rebase over the statements; a branching statement goes
\* through Decomposer.process_branching_statement, which rebases its body
\* and re-emits the branch; any other statement is appended as it is
RebaseList(stmts, target, m) ==
    IF stmts = <<>> THEN <<>>
    ELSE (IF Head(stmts).kind = "gate"
          THEN process_gate_statement(Head(stmts).name, Head(stmts), target, m)
          ELSE IF Head(stmts).kind = "branch"
          THEN <<[Head(stmts) EXCEPT !.body = RebaseList(@, target, m), !.own = m]>>
          ELSE <<Head(stmts)>>)
         \o RebaseList(Tail(stmts), target, m)

\* rebase once the module worked on is unrolled or was found unrolled: U is
\* the unroll call rebase made, or stands for none
rebase_after_unroll(self, U, target, m, in_place) ==
    IF U.res # "ok"
    THEN [self |-> IF in_place THEN U.mod ELSE self, mod |-> U.mod,
          res |-> U.res, pass |-> U.pass]
    ELSE [self |-> IF in_place
                   THEN AssignUnrolled(U.mod, RebaseList(U.mod.unrolled, target, m))
                   ELSE self,
          mod |-> AssignUnrolled(U.mod, RebaseList(U.mod.unrolled, target, m)),
          res |-> "ok", pass |-> U.pass]

\* qasm_module = self if in_place else self.copy(), unrolled when its
\* unrolled list is empty
rebase_entered(self, qm, target, m, in_place) ==
    rebase_after_unroll(
        self,
        IF Len(qm.unrolled) = 0 THEN unroll(qm, m, DefaultMaxLoopIters, <<>>)
        ELSE [mod |-> qm, res |-> "ok", pass |-> FALSE],
        target, m, in_place)

\* rebase with the test of the basis set name made after the copy and the
\* unroll
rebase_LateCheck(self, m, target, in_place) ==
    IF target \notin DECOMPOSITION_RULES
    THEN [rebase_entered(self, IF in_place THEN self ELSE copy(self, m),
                         "clifford_t", m, in_place)
            EXCEPT !.res = "ValueError"]
    ELSE rebase_entered(self, IF in_place THEN self ELSE copy(self, m),
                        target, m, in_place)

\* rebase(target_basis_set, in_place): self is the receiver after the call,
\* mod the module worked on (returned when res = "ok"), pass whether rebase
\* ran an unroll
rebase(self, m, target, in_place) ==
    IF target \notin DECOMPOSITION_RULES
    THEN [self |-> self, mod |-> self, res |-> "ValueError", pass |-> FALSE]
    ELSE rebase_entered(self, IF in_place THEN self ELSE copy(self, m),
                        target, m, in_place)

Rebase(m, target, in_place) ==
    /\ CanCall(m, in_place)
    /\ \E R \in {rebase(mods[m], IF in_place THEN m ELSE 2, target, in_place)} :
          /\ mods' = Place(m, in_place, R.self, R.mod, R.res)
          /\ last' = [Then("rebase", m, in_place, R.res, R.pass, 0)
                        EXCEPT !.cur.arg = target]
    /\ before' = NoBefore
    /\ steps' = steps + 1
    /\ UNCHANGED <<call, cli>>

NextRebase ==
    \/ \E m \in Objects, c \in LoopCeilings : Unroll(m, c)
    \/ \E m \in Objects, ip \in BOOLEAN : RemoveMeasurements(m, ip)
    \/ \E m \in Objects, ip \in BOOLEAN : RemoveIncludes(m, ip)
    \/ \E m \in Objects, t \in DECOMPOSITION_RULES \cup {"undefined_basis"},
          ip \in BOOLEAN : Rebase(m, t, ip)

SpecRebase == Init /\ [][NextRebase]_vars

\* C14: a rebase whose target basis set has no decomposition rules ends
\* with an error and leaves every field of every module as it was, for
\* both values of in_place, unrolled or not.
C14_UnknownBasisFailsAtEntry ==
    [][(steps' = steps + 1 /\ last'.cur.op = "rebase"
            /\ last'.cur.arg \notin DECOMPOSITION_RULES)
        => (last'.cur.res = "ValueError" /\ mods' = mods)]_vars

\* a rebase to an undefined basis set failed on a module no pass has run on
C14_Witness ==
    /\ last.cur.op = "rebase" /\ last.cur.arg \notin DECOMPOSITION_RULES
    /\ last.cur.res = "ValueError"
    /\ mods[last.cur.m].num_qubits = Uninit
    /\ Len(mods[last.cur.m].unrolled) = 0

RECURSIVE IsFlat(_)
\* a flattened program: no loop, no branch on a condition known to the
\* pass, at any depth
IsFlat(stmts) ==
    \A i \in 1..Len(stmts) :
        /\ stmts[i].kind \notin {"loop", "unsupported"}
        /\ stmts[i].kind = "branch" =>
              (stmts[i].cond = "measured" /\ IsFlat(stmts[i].body))

\* C15: the statement list a successful rebase has rewritten is a flattened
\* program; a pass has run on the module, so its counts are set.
C15_RebaseOnFlattened ==
    (last.cur.op = "rebase" /\ last.cur.res = "ok")
        => /\ IsFlat(mods[last.cur.tgt].unrolled)
           /\ mods[last.cur.tgt].num_qubits # Uninit

\* ========================================================= validation rules
\* widths 1..MaxWidth of the integer variables, and the values assigned
MaxWidth == 3

\* Python values: an int, a bool (v is 0 or 1), or None
PyInt(k) == [ty |-> "int", v |-> k]

PyBool(b) == [ty |-> "bool", v |-> IF b THEN 1 ELSE 0]

PyNone == [ty |-> "none", v |-> 0]

\* the values handed to the rules: every integer up to one past the widest
\* range on both sides, and the two booleans
PyValues ==
    {PyInt(k) : k \in (0 - 2^MaxWidth - 1)..(2^MaxWidth + 1)}
        \cup {PyBool(TRUE), PyBool(FALSE)}

\* Variable(name, base_type, base_size, ...)
Variable(name, base_type, base_size) ==
    [name |-> name, base_type |-> base_type, base_size |-> base_size]

\* the declared types: int[n], uint[n], float[32], float[64], bool, and a
\* type the type map does not know
Variables ==
    {Variable("a", t, n) : t \in {"int", "uint"}, n \in 1..MaxWidth}
        \cup {Variable("a", "float", n) : n \in {32, 64}}
        \cup {Variable("a", "bool", 1), Variable("a", "duration", 1)}

\* VARIABLE_TYPE_MAP[qasm_type]: the Python type to match, "KeyError" for a
\* type that has no entry
VARIABLE_TYPE_MAP(qasm_type) ==
    IF qasm_type \in {"int", "uint"} THEN "int"
    ELSE IF qasm_type = "float" THEN "float"
    ELSE IF qasm_type = "bool" THEN "bool"
    ELSE "KeyError"

\* LIMITS_MAP: the max magnitude of a float of the given width, above every
\* value of PyValues
LIMITS_MAP(key) == IF key = "float_32" THEN 2^24 ELSE 2^30

\* qasm_variable_type_cast: the value cast to the declared type
qasm_variable_type_cast(qasm_type, var_name, base_size, value) ==
    IF qasm_type = "bool" THEN PyBool(value.v # 0)
    ELSE PyInt(value.v)

\* raise_qasm3_error(message, err_type): the error raised; msg keeps the
\* values the message is formatted with
raise_qasm3_error(text, err_type, fields) ==
    [res |-> err_type, msg |-> [text |-> text, fields |-> fields], ret |-> PyNone]

Returned(value) == [res |-> "ok", msg |-> [text |-> "", fields |-> <<>>], ret |-> value]

\* the range check of an integer variable with both ends taken as outside
range_check_Strict(qasm_type, base_size, type_casted_value) ==
    IF qasm_type = "int"
    THEN type_casted_value <= (0 - 1) * (2^(base_size - 1))
            \/ type_casted_value >= 2^(base_size - 1) - 1
    ELSE type_casted_value <= 0 \/ type_casted_value >= 2^base_size - 1

\* check 2 for type_to_match == int: TRUE when the value is out of limits
range_check(qasm_type, base_size, type_casted_value) ==
    IF qasm_type = "int"
    THEN type_casted_value < (0 - 1) * (2^(base_size - 1))
            \/ type_casted_value > 2^(base_size - 1) - 1
    ELSE type_casted_value < 0 \/ type_casted_value > 2^base_size - 1

\* validate_variable_assignment_value(variable, value)
validate_variable_assignment_value(variable, value) ==
    LET qasm_type == variable.base_type
        base_size == variable.base_size
        type_to_match == VARIABLE_TYPE_MAP(qasm_type)
        type_casted_value ==
            qasm_variable_type_cast(qasm_type, variable.name, base_size, value)
        limit == IF base_size = 32 THEN LIMITS_MAP("float_32")
                 ELSE LIMITS_MAP("float_64")
        out_of_limits ==
            raise_qasm3_error("Value out of limits for variable with base size",
                              "ValidationError",
                              <<value, variable.name, base_size>>)
    IN IF type_to_match = "KeyError"
       THEN raise_qasm3_error("Invalid type for variable", "ValidationError",
                              <<qasm_type, variable.name>>)
       ELSE IF type_to_match = "int"
       THEN IF range_check(qasm_type, base_size, type_casted_value.v)
            THEN out_of_limits
            ELSE Returned(type_casted_value)
       ELSE IF type_to_match = "float"
       THEN IF type_casted_value.v < (0 - 1) * limit \/ type_casted_value.v > limit
            THEN out_of_limits
            ELSE Returned(type_casted_value)
       ELSE Returned(type_casted_value)

NoOthers ==
    /\ mods = [o \in Objects |-> NoModule]
    /\ last = [cur |-> NoCall, prev |-> NoCall]
    /\ before = NoBefore
    /\ steps = 0

InitValidator ==
    /\ NoOthers
    /\ call = NoRule
    /\ cli = NoRun

AssignValue ==
    /\ \E variable \in Variables, value \in PyValues :
          call' = [fn |-> "validate_variable_assignment_value",
                   variable |-> variable, value |-> value,
                   out |-> validate_variable_assignment_value(variable, value)]
    /\ UNCHANGED <<mods, last, before, steps, cli>>

\* ---- C16
\* C16: validate_variable_assignment_value accepts an integer value v for a
\* signed integer variable of width n iff -2^(n-1) <= v <= 2^(n-1)-1 and
\* for an unsigned one iff 0 <= v <= 2^n-1; every other value fails with a
\* validation error that names the value, the variable and the width.
C16_IntegerRange ==
    (/\ call.fn = "validate_variable_assignment_value"
     /\ call.variable.base_type \in {"int", "uint"}
     /\ call.value.ty = "int")
        => LET n == call.variable.base_size
               v == call.value.v
               inside == IF call.variable.base_type = "int"
                         THEN 0 - 2^(n - 1) <= v /\ v <= 2^(n - 1) - 1
                         ELSE 0 <= v /\ v <= 2^n - 1
           IN IF inside
              THEN call.out.res = "ok" /\ call.out.ret = PyInt(v)
              ELSE /\ call.out.res = "ValidationError"
                   /\ call.out.msg.fields = <<call.value, call.variable.name, n>>

\* the widest unsigned variable was assigned the value one past its
\* greatest, and the assignment failed
C16_Witness ==
    /\ call.fn = "validate_variable_assignment_value"
    /\ call.variable = Variable("a", "uint", MaxWidth)
    /\ call.value = PyInt(2^MaxWidth)
    /\ call.out.res = "ValidationError"

\* ------------------------------------------------------ validate_gate_call
MaxArgs == 2

\* a list of k arguments or qubits
Operands(k) == [i \in 1..k |-> i]

\* validate_gate_call with the qubit count compared first
validate_gate_call_QubitsFirst(operation, gate_definition, qubits_in_op) ==
    IF qubits_in_op # Len(gate_definition.qubits)
    THEN raise_qasm3_error("Qubit count mismatch for gate", "ValidationError",
                           <<operation.name, Len(gate_definition.qubits), qubits_in_op>>)
    ELSE IF Len(operation.arguments) # Len(gate_definition.arguments)
    THEN raise_qasm3_error("Parameter count mismatch for gate", "ValidationError",
                           <<operation.name, Len(gate_definition.arguments),
                             Len(operation.arguments)>>)
    ELSE Returned(PyNone)

\* validate_gate_call(operation, gate_definition, qubits_in_op)
validate_gate_call(operation, gate_definition, qubits_in_op) ==
    LET op_num_args == Len(operation.arguments)
        gate_def_num_args == Len(gate_definition.arguments)
        gate_def_num_qubits == Len(gate_definition.qubits)
    IN IF op_num_args # gate_def_num_args
       THEN raise_qasm3_error("Parameter count mismatch for gate", "ValidationError",
                              <<operation.name, gate_def_num_args, op_num_args>>)
       ELSE IF qubits_in_op # gate_def_num_qubits
       THEN raise_qasm3_error("Qubit count mismatch for gate", "ValidationError",
                              <<operation.name, gate_def_num_qubits, qubits_in_op>>)
       ELSE Returned(PyNone)

GateCall ==
    /\ \E a, da, q, dq \in 0..MaxArgs :
          call' = [fn |-> "validate_gate_call",
                   operation |-> [name |-> "g", arguments |-> Operands(a)],
                   gate_definition |-> [arguments |-> Operands(da),
                                        qubits |-> Operands(dq)],
                   qubits_in_op |-> q,
                   out |-> validate_gate_call(
                              [name |-> "g", arguments |-> Operands(a)],
                              [arguments |-> Operands(da), qubits |-> Operands(dq)],
                              q)]
    /\ UNCHANGED <<mods, last, before, steps, cli>>

\* ---- C17
\* C17: validate_gate_call succeeds iff the argument count of the call
\* equals that of the definition and the qubit count of the call equals
\* that of the definition; a mismatch fails with an error that names the
\* expected and the actual count, and when both counts differ the error is
\* the one about the argument count.
C17_GateCallArity ==
    call.fn = "validate_gate_call"
        => LET a == Len(call.operation.arguments)
               da == Len(call.gate_definition.arguments)
               q == call.qubits_in_op
               dq == Len(call.gate_definition.qubits)
           IN /\ call.out.res = "ok" <=> (a = da /\ q = dq)
              /\ a # da =>
                    /\ call.out.res = "ValidationError"
                    /\ call.out.msg.text = "Parameter count mismatch for gate"
                    /\ call.out.msg.fields = <<call.operation.name, da, a>>
              /\ (a = da /\ q # dq) =>
                    /\ call.out.res = "ValidationError"
                    /\ call.out.msg.text = "Qubit count mismatch for gate"
                    /\ call.out.msg.fields = <<call.operation.name, dq, q>>

\* a call whose argument count and qubit count both differ from the
\* definition's was refused
C17_Witness ==
    /\ call.fn = "validate_gate_call"
    /\ Len(call.operation.arguments) # Len(call.gate_definition.arguments)
    /\ call.qubits_in_op # Len(call.gate_definition.qubits)
    /\ call.out.res = "ValidationError"


\* ----------------------------------------------- validate_return_statement
\* the return types a subroutine can declare: none (void), bool, which has
\* no size attribute, and int, uint and float, whose size attribute is an
\* integer literal or, when no width was written, None
VoidType == [kind |-> "void", size |-> None]

ReturnTypes ==
    {VoidType, [kind |-> "bool", size |-> None]}
        \cup {[kind |-> k, size |-> n] : k \in {"int", "uint"}, n \in (1..MaxWidth) \cup {None}}
        \cup {[kind |-> "float", size |-> n] : n \in {32, 64}}

\* the rest of validate_return_statement once base_size is known
return_with_size(name, return_type, base_size, return_value) ==
    validate_variable_assignment_value(
        Variable(<<name, "_return">>, return_type.kind, base_size), return_value)

\* validate_return_statement with base_size left at its default
validate_return_statement_DefaultSize(name, return_type, return_value) ==
    IF return_type = VoidType
    THEN IF return_value # PyNone
         THEN raise_qasm3_error("Return type mismatch for subroutine",
                                "ValidationError", <<name, "void", return_value.ty>>)
         ELSE Returned(PyNone)
    ELSE IF return_value = PyNone
    THEN raise_qasm3_error("Return type mismatch for subroutine",
                           "ValidationError", <<name, return_type.kind, "void">>)
    ELSE return_with_size(name, return_type, 1, return_value)

\* validate_return_statement(subroutine_def, return_statement, return_value);
\* subroutine_def is given by its name and its return type
validate_return_statement(name, return_type, return_value) ==
    IF return_type = VoidType
    THEN IF return_value # PyNone
         THEN raise_qasm3_error("Return type mismatch for subroutine",
                                "ValidationError", <<name, "void", return_value.ty>>)
         ELSE Returned(PyNone)
    ELSE IF return_value = PyNone
    THEN raise_qasm3_error("Return type mismatch for subroutine",
                           "ValidationError", <<name, return_type.kind, "void">>)
    ELSE IF return_type.kind \in {"int", "uint", "float"}   \* hasattr(..., "size")
    THEN IF return_type.size = None
         THEN [res |-> "AttributeError",
               msg |-> [text |-> "'NoneType' object has no attribute 'value'",
                        fields |-> <<>>],
               ret |-> PyNone]
         ELSE return_with_size(name, return_type, return_type.size, return_value)
    ELSE return_with_size(name, return_type, 1, return_value)

ReturnStatement ==
    /\ \E t \in ReturnTypes, v \in PyValues \cup {PyNone} :
          call' = [fn |-> "validate_return_statement",
                   name |-> "f",
                   return_type |-> t,
                   return_value |-> v,
                   out |-> validate_return_statement("f", t, v)]
    /\ UNCHANGED <<mods, last, before, steps, cli>>

\* ------------------------------------------------- validate_statement_type
\* the statement classes a construct can hold, and the classes of the type
\* of a classical declaration ("" for a statement that has no type)
StatementClasses ==
    {"ClassicalDeclaration", "QubitDeclaration", "QuantumGate", "ReturnStatement"}

\* validate_statement_type(blacklisted_stmts, statement, construct)
validate_statement_type(blacklisted_stmts, statement, construct) ==
    IF statement.class \in blacklisted_stmts
    THEN IF statement.class # "ClassicalDeclaration"
         THEN raise_qasm3_error("Unsupported statement in block", "ValidationError",
                                <<statement.class, construct>>)
         ELSE IF statement.type = "ArrayType"
         THEN raise_qasm3_error("Unsupported statement with type in block",
                                "ValidationError",
                                <<statement.class, statement.type, construct>>)
         ELSE Returned(PyNone)
    ELSE Returned(PyNone)

StatementType ==
    /\ \E bl \in SUBSET StatementClasses, c \in StatementClasses,
          t \in {"ArrayType", "IntType", "BitType"}, k \in {"gate", "function"} :
          \E st \in {[class |-> c,
                       type |-> IF c = "ClassicalDeclaration" THEN t ELSE ""]} :
             call' = [fn |-> "validate_statement_type",
                      blacklisted_stmts |-> bl,
                      statement |-> st,
                      construct |-> k,
                      out |-> validate_statement_type(bl, st, k)]
    /\ UNCHANGED <<mods, last, before, steps, cli>>

NextValidator ==
    \/ AssignValue
    \/ GateCall
    \/ ReturnStatement
    \/ StatementType

SpecValidator == InitValidator /\ [][NextValidator]_vars

MaxIters == 3

\* the programs with one loop of it iterations of the body bd
LoopPrograms ==
    { << QubitDeclaration("q", 2), ClassicalDeclaration("c", 1),
         QuantumGate("x", <<Q("q", 0)>>),
         ForInLoop(it, bd),
         QuantumGate("h", <<Q("q", 1)>>) >> :
        it \in 0..MaxIters,
        bd \in { <<QuantumGate("h", <<Q("q", 0)>>)>>,
                 <<QuantumGate("h", <<Q("q", 0)>>),
                   QuantumGate("cx", <<Q("q", 0), Q("q", 1)>>)>>,
                 <<QuantumGate("x", <<Q("q", 1)>>),
                   QuantumMeasurementStatement(Q("q", 1), Q("c", 0))>> } }

InitLoop ==
    /\ \E prog \in LoopPrograms :
          mods = [o \in Objects |-> IF o = 1 THEN QasmModule(prog) ELSE NoModule]
    /\ last = [cur |-> NoCall, prev |-> NoCall]
    /\ before = NoBefore
    /\ steps = 0
    /\ call = NoRule
    /\ cli = NoRun

NextLoop == \E m \in Objects, c \in 0..(MaxIters + 1) : Unroll(m, c)

SpecLoop == InitLoop /\ [][NextLoop]_vars

\* a statement list with every node allocated in object m's graph
OwnedBy(stmts, m) == [i \in DOMAIN stmts |-> [stmts[i] EXCEPT !.own = m]]

RECURSIVE Repeat(_, _)
Repeat(body, k) == IF k = 0 THEN <<>> ELSE body \o Repeat(body, k - 1)

\* the statements of a program with each loop replaced by its body, once
\* per iteration, in iteration order
RECURSIVE BodyPerIteration(_)
BodyPerIteration(stmts) ==
    IF stmts = <<>> THEN <<>>
    ELSE (IF Head(stmts).kind = "loop"
          THEN Repeat(Head(stmts).body, Head(stmts).iters)
          ELSE <<Head(stmts)>>) \o BodyPerIteration(Tail(stmts))

\* the greatest iteration count of a loop of the program
RECURSIVE TrueCount(_)
TrueCount(stmts) ==
    IF stmts = <<>> THEN 0
    ELSE Max(IF Head(stmts).kind = "loop" THEN Head(stmts).iters ELSE 0,
             TrueCount(Tail(stmts)))

\* ---- C19
\* C19: for a loop of true iteration count k, unroll with max_loop_iters
\* below k ends with an UnrollError and leaves an empty unrolled program;
\* unroll with max_loop_iters at or above k ends successfully, and the
\* unrolled program has the loop replaced by its body once per iteration,
\* in iteration order.
C19_LoopCeiling ==
    last.cur.op = "unroll"
        => LET M == mods[last.cur.m]
               k == TrueCount(M.statements)
           IN IF last.cur.ret < k
              THEN last.cur.res = "UnrollError" /\ M.unrolled = <<>>
              ELSE /\ last.cur.res = "ok"
                   /\ M.unrolled = OwnedBy(BodyPerIteration(M.statements), last.cur.m)

\* a loop of MaxIters iterations with two operations in its body was first
\* unrolled under a ceiling one below its count, which failed, and then
\* under a ceiling equal to its count, which succeeded
C19_Witness ==
    /\ last.cur.op = "unroll"
    /\ last.prev.op = "unroll"
    /\ TrueCount(mods[1].statements) = MaxIters
    /\ last.prev.ret = MaxIters - 1
    /\ last.prev.res = "UnrollError"
    /\ last.cur.ret = MaxIters
    /\ last.cur.res = "ok"
    /\ Len(mods[1].unrolled) = 4 + 2 * MaxIters

\* ---------------------------------------------------- the batch validator
MaxPaths == 2

\* the file system the command runs on: content is the lines of a file by
\* kind, outcome what load(...).validate() does on it
Files ==
    [p \in {"a.qasm", "b.qasm", "t.qasm", "n.txt", "d/p.qasm", "d/f.qasm", "d/t.qasm"} |->
        CASE p = "a.qasm" -> [content |-> <<"OPENQASM", "other">>, outcome |-> "ok"]
          [] p = "b.qasm" -> [content |-> <<"OPENQASM", "tag", "other">>, outcome |-> "ValidationError"]
          [] p = "t.qasm" -> [content |-> <<"other", "tag", "OPENQASM">>, outcome |-> "ValidationError"]
          [] p = "n.txt" -> [content |-> <<"other">>, outcome |-> "QasmParsingError"]
          [] p = "d/p.qasm" -> [content |-> <<"OPENQASM">>, outcome |-> "ok"]
          [] p = "d/f.qasm" -> [content |-> <<"OPENQASM", "other">>, outcome |-> "Exception"]
          [] p = "d/t.qasm" -> [content |-> <<"generic tag", "OPENQASM">>, outcome |-> "ok"]]

\* os.walk(directory): the files below a directory, in walk order
Directories == [p \in {"d"} |-> <<"d/p.qasm", "d/n.txt", "d/f.qasm", "d/t.qasm">>]

isdir(item) == item \in DOMAIN Directories

isfile(item) == item \in DOMAIN Files

\* str.endswith(".qasm")
endswith_qasm(item) ==
    item \in {"a.qasm", "b.qasm", "t.qasm", "z.qasm", "d/p.qasm", "d/f.qasm", "d/t.qasm"}

\* QasmModule.skip_qasm_files_with_tag(content, "validate"): a tag in a line
\* up to and including the first line that has OPENQASM in it
RECURSIVE skip_qasm_files_with_tag(_)
skip_qasm_files_with_tag(content) ==
    IF content = <<>> THEN FALSE
    ELSE IF Head(content) \in {"tag", "generic tag"} THEN TRUE
    ELSE IF Head(content) \in {"OPENQASM"} THEN FALSE
    ELSE skip_qasm_files_with_tag(Tail(content))

\* validate_qasm_file(file_path) on the closure's state st
validate_qasm_file(st, file_path) ==
    IF InSeq(file_path, st.skip_files) THEN st
    ELSE IF skip_qasm_files_with_tag(Files[file_path].content)
    THEN [st EXCEPT !.skip_files = Append(@, file_path)]
    ELSE IF Files[file_path].outcome = "ok"
    THEN [st EXCEPT !.loaded = Append(@, file_path)]
    ELSE [st EXCEPT !.loaded = Append(@, file_path),
                    !.failed_files = Append(@, <<file_path, Files[file_path].outcome>>)]

\* process_files_in_directory(directory): the walk over files, the count
\* it returns added to st.checked
RECURSIVE process_files(_, _)
process_files(st, files) ==
    IF files = <<>> THEN st
    ELSE IF endswith_qasm(Head(files))
    THEN process_files([validate_qasm_file(st, Head(files)) EXCEPT !.checked = @ + 1],
                       Tail(files))
    ELSE process_files(st, Tail(files))

process_files_in_directory(st, directory) ==
    IF ~isdir(directory) THEN st ELSE process_files(st, Directories[directory])

\* the decision at the end of validate_qasm, checked already reduced
exit_status(checked, failed_files) ==
    IF checked = 0 THEN 0
    ELSE IF failed_files # <<>> THEN 1
    ELSE 0

\* the arguments of a run: src_paths, and skip_files, which may be left out
SeqsUpTo(S, n) == UNION {[1..k -> S] : k \in 0..n}

InitCli ==
    /\ NoOthers
    /\ call = NoRule
    /\ \E src \in SeqsUpTo({"a.qasm", "b.qasm", "t.qasm", "n.txt", "d"}, MaxPaths),
          sk \in {[given |-> FALSE, val |-> <<>>]}
                    \cup {[given |-> TRUE, val |-> l] :
                             l \in SeqsUpTo({"b.qasm", "d/f.qasm", "z.qasm"}, MaxPaths)} :
          cli = [pc |-> "call", src_paths |-> src, arg |-> sk,
                 skip_files |-> <<>>, failed_files |-> <<>>, loaded |-> <<>>,
                 checked |-> 0, pos |-> 1, exit |-> None]

\* lines 53-57 and 90: skip_files = skip_files or [], the empty lists
EnterValidateQasm ==
    /\ cli.pc = "call"
    /\ cli' = [cli EXCEPT !.pc = "for",
                          !.skip_files = IF cli.arg.given THEN cli.arg.val ELSE <<>>,
                          !.failed_files = <<>>,
                          !.checked = 0,
                          !.pos = 1]
    /\ UNCHANGED <<mods, last, before, steps, call>>

\* one iteration of: for item in src_paths
ForItem ==
    /\ cli.pc = "for"
    /\ cli.pos <= Len(cli.src_paths)
    /\ LET item == cli.src_paths[cli.pos]
       IN cli' = IF isdir(item)
                 THEN [process_files_in_directory(cli, item) EXCEPT !.pos = @ + 1]
                 ELSE IF isfile(item) /\ endswith_qasm(item)
                 THEN [validate_qasm_file(cli, item) EXCEPT !.checked = @ + 1,
                                                            !.pos = @ + 1]
                 ELSE [cli EXCEPT !.pos = @ + 1]
    /\ UNCHANGED <<mods, last, before, steps, call>>

\* lines 98-127: checked -= len(skip_files), then the exit
RaiseExit ==
    /\ cli.pc = "for"
    /\ cli.pos > Len(cli.src_paths)
    /\ cli' = [cli EXCEPT !.pc = "exited",
                          !.checked = @ - Len(cli.skip_files),
                          !.exit = exit_status(cli.checked - Len(cli.skip_files),
                                               cli.failed_files)]
    /\ UNCHANGED <<mods, last, before, steps, call>>

NextCli ==
    \/ EnterValidateQasm
    \/ ForItem
    \/ RaiseExit

SpecCli == InitCli /\ [][NextCli]_vars

\* the .qasm files a run visits, in order
RECURSIVE Visited(_)
Visited(src_paths) ==
    IF src_paths = <<>> THEN <<>>
    ELSE (IF isdir(Head(src_paths))
          THEN SelectSeq(Directories[Head(src_paths)], endswith_qasm)
          ELSE IF isfile(Head(src_paths)) /\ endswith_qasm(Head(src_paths))
          THEN <<Head(src_paths)>>
          ELSE <<>>) \o Visited(Tail(src_paths))

\* the visited files that are checked: not named in skip_files and without
\* a skip tag
CheckedFiles(src_paths, arg) ==
    {f \in {Visited(src_paths)[i] : i \in 1..Len(Visited(src_paths))} :
        /\ ~(arg.given /\ InSeq(f, arg.val))
        /\ ~skip_qasm_files_with_tag(Files[f].content)}

\* ---- C20
\* C20: for every combination of source paths and skip_files, skip_files
\* entries that no source path leads to included, the batch validator exits
\* with status 1 iff at least one checked (visited, not skipped) .qasm file
\* failed validation, and with status 0 otherwise; every checked file was
\* validated, whatever the files before it did.
C20_ExitStatus ==
    cli.pc = "exited"
        => /\ cli.exit = 1 <=>
                \E f \in CheckedFiles(cli.src_paths, cli.arg) : Files[f].outcome # "ok"
           /\ cli.exit \in {0, 1}
           /\ {cli.loaded[i] : i \in 1..Len(cli.loaded)}
                = CheckedFiles(cli.src_paths, cli.arg)

\* -------------------------------------------------------- subroutine calls
MaxCalls == 3

\* the calls of a program: my_function(q[i]) with body h, rx on its qubit
\* parameter, and my_function_2(q[i], q[i+1]) with a two-qubit body
CallShapes ==
    {SubroutineCall("my_function", <<Q("q", i)>>,
                    <<QuantumGate("h", <<Q("formal", 1)>>),
                      QuantumGate("rx", <<Q("formal", 1)>>)>>) : i \in 0..2}
        \cup {SubroutineCall("my_function_2", <<Q("q", i), Q("q", (i + 1) % 3)>>,
                             <<QuantumGate("cx", <<Q("formal", 2), Q("formal", 1)>>)>>) :
                i \in 0..2}

InitCall ==
    /\ \E calls \in UNION {[1..k -> CallShapes] : k \in 1..MaxCalls} :
          mods = [o \in Objects |->
                    IF o = 1 THEN QasmModule(<<QubitDeclaration("q", 3)>> \o calls)
                    ELSE NoModule]
    /\ last = [cur |-> NoCall, prev |-> NoCall]
    /\ before = NoBefore
    /\ steps = 0
    /\ call = NoRule
    /\ cli = NoRun

NextCall == \E m \in Objects, c \in LoopCeilings : Unroll(m, c)

SpecCall == InitCall /\ [][NextCall]_vars

\* the gates a call is to leave in the flattened program: the gates of its
\* body in body order, each on the actual arguments of the call
GatesOfCall(c) ==
    [i \in 1..Len(c.body) |->
        QuantumGate(c.body[i].name,
                    [j \in 1..Len(c.body[i].qubits) |-> c.qubits[c.body[i].qubits[j].idx]])]

RECURSIVE InCallOrder(_)
InCallOrder(stmts) ==
    IF stmts = <<>> THEN <<>>
    ELSE (IF Head(stmts).kind = "call" THEN GatesOfCall(Head(stmts))
          ELSE <<Head(stmts)>>) \o InCallOrder(Tail(stmts))

RECURSIVE ReversedRefs(_, _)
\* every qubit reference (r, i) of every operation, nested ones included,
\* at (r, s - 1 - i), s the size of register r
ReversedRefs(regs, stmts) ==
    [i \in 1..Len(stmts) |->
        [stmts[i] EXCEPT
            !.qubits = [j \in 1..Len(stmts[i].qubits) |->
                          IF regs[stmts[i].qubits[j].reg] > 1
                          THEN [stmts[i].qubits[j] EXCEPT
                                  !.idx = regs[stmts[i].qubits[j].reg] - 1 - @]
                          ELSE stmts[i].qubits[j]],
            !.body = ReversedRefs(regs, stmts[i].body)]]

RECURSIVE NoNegativeIndex(_)
NoNegativeIndex(stmts) ==
    \A i \in 1..Len(stmts) :
        /\ \A j \in 1..Len(stmts[i].qubits) : stmts[i].qubits[j].idx >= 0
        /\ NoNegativeIndex(stmts[i].body)

\* C22: a successful reverse_qubit_order turns every qubit reference (r, i)
\* of every operation of the flattened program, the operations nested in
\* branch bodies included, into (r, s - 1 - i), s being the size of r, once
\* (unchanged when s <= 1), and leaves no negative operand index.
C22_EveryReferenceReversed ==
    [][(steps' = steps + 1 /\ last'.cur.op = "reverse_qubit_order"
            /\ last'.cur.res = "ok")
        => \A W \in {Entered(mods[last'.cur.m], last'.cur.tgt, last'.cur.in_place)},
              A \in {mods'[last'.cur.tgt]} :
              /\ A.unrolled = ReversedRefs(W.qubit_registers, W.unrolled)
              /\ NoNegativeIndex(A.unrolled)]_vars

\* ---- C23
\* C23: validate_statement_type rejects every statement whose class is in
\* the disallowed set of the construct, with one exception: a disallowed
\* classical declaration is accepted when it is array-typed and only then;
\* a disallowed classical declaration that is not array-typed is rejected.
C23_ArrayDeclarationExcepted ==
    (call.fn = "validate_statement_type"
        /\ call.statement.class \in call.blacklisted_stmts)
        => (call.out.res = "ok"
              <=> (call.statement.class = "ClassicalDeclaration"
                     /\ call.statement.type = "ArrayType"))

\* -------------------------------------------------- validate_unique_qubits
MaxChecks == 3

\* validate_unique_qubits(qubit_map, reg_name, indices): the map after the
\* call and the value returned
validate_unique_qubits(qubit_map, reg_name, indices) ==
    IF reg_name \notin DOMAIN qubit_map
    THEN [qubit_map |-> MapSet(qubit_map, reg_name,
                               {indices[i] : i \in 1..Len(indices)}),
          ret |-> TRUE]
    ELSE IF \E i \in 1..Len(indices) : indices[i] \in qubit_map[reg_name]
    THEN [qubit_map |-> qubit_map, ret |-> FALSE]
    ELSE [qubit_map |-> qubit_map, ret |-> TRUE]

\* call.n counts the calls made on the one map; call.earlier is history:
\* the (register, index) pairs passed by the calls before the last one
InitUnique ==
    /\ NoOthers
    /\ cli = NoRun
    /\ call = [fn |-> "validate_unique_qubits", n |-> 0, qubit_map |-> EmptyMap,
               reg_name |-> "", indices |-> <<>>, ret |-> TRUE,
               earlier |-> {}]

UniqueQubits ==
    /\ call.n < MaxChecks
    /\ \E r \in {"q", "r"}, idxs \in SeqsUpTo(0..2, 2) \ {<<>>} :
          \E R \in {validate_unique_qubits(call.qubit_map, r, idxs)} :
             call' = [fn |-> "validate_unique_qubits", n |-> call.n + 1,
                      qubit_map |-> R.qubit_map,
                      reg_name |-> r, indices |-> idxs, ret |-> R.ret,
                      earlier |-> call.earlier
                                    \cup {<<call.reg_name, call.indices[i]>> :
                                             i \in 1..Len(call.indices)}]
    /\ UNCHANGED <<mods, last, before, steps, cli>>

NextUnique == UniqueQubits

SpecUnique == InitUnique /\ [][NextUnique]_vars

\* ---- C24
\* C24: in a sequence of validate_unique_qubits calls on one tracking map, a
\* call returns False iff one of its indices was passed for the same
\* register by an earlier call of the sequence, the second and later calls
\* included.
C24_DuplicateIffSeenBefore ==
    call.n > 0
        => (call.ret = FALSE
              <=> \E i \in 1..Len(call.indices) :
                     <<call.reg_name, call.indices[i]>> \in call.earlier)

\* ---- C25
\* the qubit registers a statement list declares, with their sizes
DeclaredIn(stmts) ==
    {<<stmts[i].reg, stmts[i].size>> : i \in {p \in 1..Len(stmts) : stmts[p].kind = "qdecl"}}

\* C25: the statement list a re-unroll visits after a successful in-place
\* remove_idle_qubits declares the reduced register set, and still does
\* after the next operation on the module, whichever it is: it never
\* declares the registers with the removed idle qubits again.
C25_ReducedProgramKept ==
    [][(/\ last.cur.op = "remove_idle_qubits"
        /\ last.cur.in_place
        /\ last.cur.res = "ok"
        /\ steps' = steps + 1
        /\ last'.cur.m = last.cur.m
        /\ last'.cur.in_place)
        => LET m == last.cur.m
           IN /\ DeclaredIn(mods[m].statements)
                   = {<<r, mods[m].qubit_registers[r]>> : r \in DOMAIN mods[m].qubit_registers}
              /\ DeclaredIn(mods'[m].statements) = DeclaredIn(mods[m].statements)]_vars

\* ----------------------------------------------------------- external gates
\* programs that call a gate they define, my_gate q = h q; x q
InitExternal ==
    /\ \E prog \in
          { << QubitDeclaration("q", 2),
               CustomGate("my_gate", <<Q("q", 0)>>,
                          <<QuantumGate("h", <<Q("formal", 1)>>),
                            QuantumGate("x", <<Q("formal", 1)>>)>>),
               QuantumGate("cx", <<Q("q", 0), Q("q", 1)>>) >>,
            << QubitDeclaration("q", 3), ClassicalDeclaration("c", 1),
               QuantumGate("h", <<Q("q", 2)>>),
               CustomGate("my_gate", <<Q("q", 2)>>,
                          <<QuantumGate("h", <<Q("formal", 1)>>),
                            QuantumGate("x", <<Q("formal", 1)>>)>>),
               QuantumMeasurementStatement(Q("q", 2), Q("c", 0)) >> } :
          mods = [o \in Objects |-> IF o = 1 THEN QasmModule(prog) ELSE NoModule]
    /\ last = [cur |-> NoCall, prev |-> NoCall]
    /\ before = NoBefore
    /\ steps = 0
    /\ call = NoRule
    /\ cli = NoRun

\* unroll(external_gates=ext)
UnrollExternal(m, ext) ==
    /\ CanCall(m, TRUE)
    /\ \E R \in {unroll(mods[m], m, DefaultMaxLoopIters, ext)} :
          /\ mods' = [mods EXCEPT ![m] = R.mod]
          /\ last' = Then("unroll", m, TRUE, R.res, R.pass, DefaultMaxLoopIters)
    /\ before' = NoBefore
    /\ steps' = steps + 1
    /\ UNCHANGED <<call, cli>>

NextExternal ==
    \/ \E m \in Objects, ext \in {<<>>, <<"my_gate">>} : UnrollExternal(m, ext)
    \/ \E m \in Objects, ip \in BOOLEAN : RemoveIdleQubits(m, ip)
    \/ \E m \in Objects, ip \in BOOLEAN : ReverseQubitOrder(m, ip)
    \/ \E m \in Objects, t \in DECOMPOSITION_RULES, ip \in BOOLEAN : Rebase(m, t, ip)
    \/ \E m \in Objects : Depth(m)

SpecExternal == InitExternal /\ [][NextExternal]_vars

\* ---- C26
\* C26: when unroll(external_gates=G) with a non-empty G has just succeeded
\* on a module, an in-place remove_idle_qubits, reverse_qubit_order or
\* rebase that follows leaves G as the external-gate set the module
\* records, which is the set depth() unrolls its copy with.
C26_ExternalGatesKept ==
    [][(/\ last.cur.op = "unroll"
        /\ last.cur.res = "ok"
        /\ mods[last.cur.m].external_gates # <<>>
        /\ steps' = steps + 1
        /\ last'.cur.op \in {"remove_idle_qubits", "reverse_qubit_order", "rebase"}
        /\ last'.cur.in_place
        /\ last'.cur.m = last.cur.m
        /\ last'.cur.res = "ok")
        => mods'[last.cur.m].external_gates = mods[last.cur.m].external_gates]_vars

\* ------------------------------------------- has_measurements, has_barriers
\* the loop over stmts_to_check: is there a statement of kind k in the
\* unrolled list when it is not empty, in _statements otherwise
HasKind(M, k) == \E i \in 1..Len(StmtList(M)) : StmtList(M)[i].kind = k

\* has_measurements(): the module after the call and the value returned
has_measurements(M) ==
    IF M.has_measurements = "None"
    THEN [mod |-> [M EXCEPT !.has_measurements =
                      IF HasKind(M, "measure") THEN "True" ELSE "False"],
          ret |-> HasKind(M, "measure")]
    ELSE [mod |-> M, ret |-> M.has_measurements = "True"]

\* has_barriers()
has_barriers(M) ==
    IF M.has_barriers = "None"
    THEN [mod |-> [M EXCEPT !.has_barriers =
                      IF HasKind(M, "barrier") THEN "True" ELSE "False"],
          ret |-> HasKind(M, "barrier")]
    ELSE [mod |-> M, ret |-> M.has_barriers = "True"]

HasMeasurements(m) ==
    /\ CanCall(m, TRUE)
    /\ \E R \in {has_measurements(mods[m])} :
          /\ mods' = [mods EXCEPT ![m] = R.mod]
          /\ last' = Then("has_measurements", m, TRUE, "ok", FALSE,
                          IF R.ret THEN 1 ELSE 0)
    /\ before' = NoBefore
    /\ steps' = steps + 1
    /\ UNCHANGED <<call, cli>>

HasBarriers(m) ==
    /\ CanCall(m, TRUE)
    /\ \E R \in {has_barriers(mods[m])} :
          /\ mods' = [mods EXCEPT ![m] = R.mod]
          /\ last' = Then("has_barriers", m, TRUE, "ok", FALSE,
                          IF R.ret THEN 1 ELSE 0)
    /\ before' = NoBefore
    /\ steps' = steps + 1
    /\ UNCHANGED <<call, cli>>

\* programs with a measurement and a barrier at the top level, in the body
\* of a branch the pass decides, and in the body of a loop
InitQuery ==
    /\ \E prog \in
          { << QubitDeclaration("q", 2), ClassicalDeclaration("c", 1),
               QuantumGate("h", <<Q("q", 0)>>),
               QuantumBarrier(<<Q("q", 0)>>),
               QuantumMeasurementStatement(Q("q", 0), Q("c", 0)) >>,
            << QubitDeclaration("q", 2), ClassicalDeclaration("c", 1),
               QuantumGate("h", <<Q("q", 0)>>),
               BranchingStatement("true",
                   <<QuantumMeasurementStatement(Q("q", 0), Q("c", 0))>>) >>,
            << QubitDeclaration("q", 2), ClassicalDeclaration("c", 1),
               ForInLoop(2, <<QuantumGate("h", <<Q("q", 0)>>),
                              QuantumBarrier(<<Q("q", 0)>>)>>),
               QuantumMeasurementStatement(Q("q", 0), Q("c", 0)) >>,
            << QubitDeclaration("q", 2), QuantumGate("h", <<Q("q", 1)>>) >> } :
          mods = [o \in Objects |-> IF o = 1 THEN QasmModule(prog) ELSE NoModule]
    /\ last = [cur |-> NoCall, prev |-> NoCall]
    /\ before = NoBefore
    /\ steps = 0
    /\ call = NoRule
    /\ cli = NoRun

NextQuery ==
    \/ \E m \in Objects : HasMeasurements(m)
    \/ \E m \in Objects : HasBarriers(m)
    \/ \E m \in Objects, c \in LoopCeilings : Unroll(m, c)
    \/ \E m \in Objects, ip \in BOOLEAN : RemoveMeasurements(m, ip)
    \/ \E m \in Objects, ip \in BOOLEAN : RemoveBarriers(m, ip)

SpecQuery == InitQuery /\ [][NextQuery]_vars

\* ---- C27
\* C27: whenever has_measurements() has just returned, its value is true iff
\* the statement list it inspects (the unrolled list when not empty, the
\* original list otherwise) holds a measurement statement at that moment,
\* and has_barriers() likewise for barriers, whether or not the query had
\* been made before the lists changed.
C27_QueriesAreCurrent ==
    /\ last.cur.op = "has_measurements"
         => (last.cur.ret = 1
               <=> \E i \in 1..Len(StmtList(mods[last.cur.m])) :
                      StmtList(mods[last.cur.m])[i].kind = "measure")
    /\ last.cur.op = "has_barriers"
         => (last.cur.ret = 1
               <=> \E i \in 1..Len(StmtList(mods[last.cur.m])) :
                      StmtList(mods[last.cur.m])[i].kind = "barrier")

\* ---- C28
\* the registers, the qubit count and the statement lists of a module, the
\* object that owns the nodes left out
ModuleShape(M) ==
    [qubit_registers |-> M.qubit_registers, num_qubits |-> M.num_qubits,
     statements |-> Retag(M.statements, 0), unrolled |-> Retag(M.unrolled, 0)]

\* C28: whenever remove_idle_qubits or reverse_qubit_order is called with
\* in_place=False on a module on which the same call with in_place=True
\* succeeds (a module never validated or unrolled included), the call
\* completes without error and the module it returns has the registers,
\* the qubit count, the statement list and the operand indices the
\* receiver would have after the in-place call.
C28_CopyEqualsInPlace ==
    [][(/\ steps' = steps + 1
        /\ last'.cur.op \in {"remove_idle_qubits", "reverse_qubit_order"}
        /\ ~last'.cur.in_place)
        => \A I \in {IF last'.cur.op = "remove_idle_qubits"
                     THEN remove_idle_qubits(mods[1], 1, TRUE)
                     ELSE reverse_qubit_order(mods[1], 1, TRUE)} :
              I.res = "ok"
                => /\ last'.cur.res = "ok"
                   /\ ModuleShape(mods'[2]) = ModuleShape(I.mod)]_vars

====
